---- MODULE Spec2Model ----
(***************************************************************************)
(* The workflow controller of main_hybrid.py: TeamManager.execute_workflow *)
(* and its five phases, the workspace files it writes, and the experience  *)
(* log it appends to.  Every model call and every subprocess run is one    *)
(* step; the text a step receives is drawn from a small pool.              *)
(*                                                                         *)
(* A text is a sequence of one-character strings, so that upper(),         *)
(* replace(), strip() and the substring test are computed as Python        *)
(* computes them.                                                          *)
(***************************************************************************)
EXTENDS Integers, Sequences, FiniteSets, TLC

\* main_hybrid.py:27
MAX_RETRIES == 3

\* How many records the experience log may already hold when it is loaded.
MaxLoaded == 1

-----------------------------------------------------------------------------
(* Text primitives (Python str methods)                                    *)

Last(s) == s[Len(s)]

LowerLetters ==
  <<"a", "b", "c", "d", "e", "f", "g", "h", "i", "j", "k", "l", "m",
    "n", "o", "p", "q", "r", "s", "t", "u", "v", "w", "x", "y", "z">>

UpperLetters ==
  <<"A", "B", "C", "D", "E", "F", "G", "H", "I", "J", "K", "L", "M",
    "N", "O", "P", "Q", "R", "S", "T", "U", "V", "W", "X", "Y", "Z">>

\* str.upper() on one ASCII character
UpperChar(c) ==
  IF \E k \in 1..26 : LowerLetters[k] = c
  THEN UpperLetters[CHOOSE k \in 1..26 : LowerLetters[k] = c]
  ELSE c

Upper(s) == [k \in 1..Len(s) |-> UpperChar(s[k])]

\* pat in s
Contains(s, pat) ==
  \E k \in 0..(Len(s) - Len(pat)) : SubSeq(s, k + 1, k + Len(pat)) = pat

\* s.replace(pat, ""): left to right, non-overlapping.
RECURSIVE Remove(_, _)
Remove(s, pat) ==
  IF Len(s) < Len(pat) THEN s
  ELSE IF SubSeq(s, 1, Len(pat)) = pat
       THEN Remove(SubSeq(s, Len(pat) + 1, Len(s)), pat)
       ELSE <<Head(s)>> \o Remove(Tail(s), pat)

IsSpace(c) == c \in {" ", "\t", "\n", "\r", "\f"}

RECURSIVE LStrip(_)
LStrip(s) == IF s # <<>> /\ IsSpace(Head(s)) THEN LStrip(Tail(s)) ELSE s

RECURSIVE RStrip(_)
RStrip(s) ==
  IF s # <<>> /\ IsSpace(Last(s)) THEN RStrip(SubSeq(s, 1, Len(s) - 1)) ELSE s

\* s.strip()
Strip(s) == RStrip(LStrip(s))

\* str.lower() on one ASCII character
LowerChar(c) ==
  IF \E k \in 1..26 : UpperLetters[k] = c
  THEN LowerLetters[CHOOSE k \in 1..26 : UpperLetters[k] = c]
  ELSE c

Lower(s) == [k \in 1..Len(s) |-> LowerChar(s[k])]

\* The grave accent U+0060, which a TLA+ string cannot hold.
Backtick == "U+0060"

\* The code-fence markers _write_to_workspace removes.
FencePython == <<Backtick, Backtick, Backtick, "p", "y", "t", "h", "o", "n">>
Fence == <<Backtick, Backtick, Backtick>>
ApprovalToken == <<"A", "P", "P", "R", "O", "V", "E", "D">>

-----------------------------------------------------------------------------
(* What the completion service and the subprocesses may answer             *)

Plans == { <<"p", "1">>, <<"p", "2">> }

\* "Plan approved."
PlanApproved ==
  <<"P", "l", "a", "n", " ", "a", "p", "p", "r", "o", "v", "e", "d", ".">>

\* "Revise it"
ReviseIt == <<"R", "e", "v", "i", "s", "e", " ", "i", "t">>

ValidatorResponses == { ApprovalToken, PlanApproved, ReviseIt }

\* a harness t wrapped in a python code fence
TestHarnesses ==
  { FencePython \o <<"\n", "t", "\n">> \o Fence }

ProgramA == <<"a">>
ProgramB == <<"b">>

\* program a in a python code fence
CodePythonFenced == FencePython \o <<"\n">> \o ProgramA \o <<"\n">> \o Fence

\* program b in a plain code fence, with a trailing newline
CodePlainFenced == Fence \o <<"\n">> \o ProgramB \o <<"\n">> \o Fence \o <<"\n">>

Codes == { CodePythonFenced, CodePlainFenced }

\* subprocess.run of repro_test.py: a CompletedProcess, or TimeoutExpired.
TestResults ==
  { [timeout |-> FALSE, returncode |-> 0, stderr |-> <<>>, stdout |-> <<"O", "K">>],
    [timeout |-> FALSE, returncode |-> 1, stderr |-> <<"E">>, stdout |-> <<"F">>],
    [timeout |-> TRUE, returncode |-> 0, stderr |-> <<>>, stdout |-> <<>>] }

\* subprocess.run of flake8: its stdout, or FileNotFoundError.
LintRuns ==
  { [missing |-> FALSE, stdout |-> <<>>],
    [missing |-> FALSE, stdout |-> <<"E", "5", "0", "1", "\n">>],
    [missing |-> TRUE, stdout |-> <<>>] }

Task == <<"a", "d", "d">>

\* A record of an earlier run on a task that shares the word "add".
PriorRecord ==
  [task |-> <<"A", "d", "d", " ", "i", "t">>, success |-> TRUE,
   solution |-> <<"z">>]

LoadedLogs == UNION { [1..n -> {PriorRecord}] : n \in 0..MaxLoaded }

-----------------------------------------------------------------------------
(* MemoryManager.find_similar_experiences, main_hybrid.py:273-286          *)

\* set(text.split()): the maximal runs of non-whitespace characters
Words(text) ==
  { SubSeq(text, a, b) : <<a, b>> \in
      { w \in (1..Len(text)) \X (1..Len(text)) :
          /\ w[1] <= w[2]
          /\ \A k \in w[1]..w[2] : ~IsSpace(text[k])
          /\ w[1] = 1 \/ IsSpace(text[w[1] - 1])
          /\ w[2] = Len(text) \/ IsSpace(text[w[2] + 1]) } }

\* len(task_keywords.intersection(mem_keywords))
Score(task, mem) ==
  Cardinality(Words(Lower(task)) \cap Words(Lower(mem.task)))

\* scored_memories as the loop builds it: the records that score above 0,
\* in the order of the log
RECURSIVE ScoredMemories(_, _)
ScoredMemories(mems, task) ==
  IF mems = <<>> THEN <<>>
  ELSE LET rest == ScoredMemories(Tail(mems), task) IN
       IF Score(task, Head(mems)) > 0
       THEN <<[score |-> Score(task, Head(mems)), memory |-> Head(mems)]>> \o rest
       ELSE rest

RECURSIVE InsertByScoreTiesReversed(_, _)
InsertByScoreTiesReversed(sorted, item) ==
  IF sorted = <<>> THEN <<item>>
  ELSE IF Head(sorted).score > item.score
       THEN <<Head(sorted)>> \o InsertByScoreTiesReversed(Tail(sorted), item)
       ELSE <<item>> \o sorted

\* Where item goes in a list sorted by falling score: behind every entry
\* that scores at least as much.
RECURSIVE InsertByScore(_, _)
InsertByScore(sorted, item) ==
  IF sorted = <<>> THEN <<item>>
  ELSE IF Head(sorted).score >= item.score
       THEN <<Head(sorted)>> \o InsertByScore(Tail(sorted), item)
       ELSE <<item>> \o sorted

\* list.sort(key=score, reverse=True): stable, equal scores keep their order
RECURSIVE SortByScore(_)
SortByScore(items) ==
  IF items = <<>> THEN <<>>
  ELSE InsertByScore(SortByScore(SubSeq(items, 1, Len(items) - 1)), Last(items))

\* scored_memories[:top_k]
Take(items, k) == SubSeq(items, 1, IF Len(items) < k THEN Len(items) ELSE k)

\* find_similar_experiences(task, top_k)
FindSimilarExperiences(mems, task, top_k) ==
  LET best == Take(SortByScore(ScoredMemories(mems, task)), top_k) IN
  [k \in 1..Len(best) |-> best[k].memory]

\* The default top_k of find_similar_experiences.
DEFAULT_TOP_K == 2

-----------------------------------------------------------------------------
(* AGENT_PERSONAS, main_hybrid.py:307-344                                  *)

Personas ==
  {"ARCHITECT", "VALIDATOR", "QA_ENGINEER", "CODER", "DEBUGGER", "AUDITOR",
   "REFACTOR_AGENT"}

Role(persona) ==
  CASE persona = "ARCHITECT" -> "Architect"
    [] persona = "VALIDATOR" -> "Validator"
    [] persona = "QA_ENGINEER" -> "QA Engineer"
    [] persona = "CODER" -> "Python Dev"
    [] persona = "DEBUGGER" -> "Debugger"
    [] persona = "AUDITOR" -> "Auditor"
    [] persona = "REFACTOR_AGENT" -> "Python Dev"

WorkflowStates ==
  {"PLANNING", "GENERATE_TESTS", "CODING", "REFACTORING", "AUDIT", "DONE", "FAILED"}

TerminalStates == {"DONE", "FAILED"}

-----------------------------------------------------------------------------
VARIABLES
  context,       \* TeamManager.context, the SharedContext
  pc,            \* where execute_workflow stands
  i,             \* the loop index of the phase being run
  plan,          \* _planning_phase's local plan
  lint_results,  \* _refactoring_phase's local lint_results
  workspace,     \* the files of _agent_workspace
  memories,      \* MemoryManager.memories
  memory_file,   \* agent_memory.json
  metrics,       \* Metrics.data
  exc,           \* the exception that left execute_workflow, if any
  result,        \* what execute_workflow returned
  obs,           \* what has happened so far: the calls made of each persona
                 \* and its latest answer, the Validator's answers, the
                 \* subprocess runs, the states passed, the log as loaded
  instruction,   \* args.instruction, the text handed to validate_instruction
  validated,     \* what validate_instruction returned or raised
  git,           \* the repository as GitGatekeeper sees it
  target_file,   \* the file named by args.file
  models,        \* the module globals MODEL_ARCHITECT, MODEL_CODER, MODEL_CLERK
  client,        \* HybridAIClient: the probes and completion calls made
  retrieved,     \* the latest find_similar_experiences call and its answer
  script,        \* a run of flow_engineer.py, autonomous_agent.py or
                 \* agent_architect.py: calls, test runs, files
  managers       \* the MemoryManager objects of executions sharing one log

\* What main() holds around the workflow, the model router, the memory query,
\* the stand-alone scripts, the executions that share the experience log.
mainVars == <<instruction, validated, git, target_file>>
routerVars == <<models, client>>
queryVars == <<retrieved>>
scriptVars == <<script>>
sharedLogVars == <<managers>>

\* Everything TeamManager.execute_workflow never touches.
outside == <<mainVars, routerVars, queryVars, scriptVars, sharedLogVars>>

vars ==
  <<context, pc, i, plan, lint_results, workspace, memories, memory_file,
    metrics, exc, result, obs, outside>>

\* Markers for a file not written and a persona not heard yet; no text
\* equals them, since no character is spelled this way.
NoFile == <<"NoFile">>
NoText == <<"NoText">>
NoResult == "NoResult"

\* args.target_file, and what _load_map returns
TargetPath == "target.py"
RepoMap == "repo_map.json"

\* SharedContext.__init__
SharedContext(task, target_file_, repo_map, similar_experiences) ==
  [task |-> task, target_file |-> target_file_, repo_map |-> repo_map,
   similar_experiences |-> similar_experiences,
   plan |-> <<>>, test_code |-> <<>>, solution_code |-> <<>>,
   critique |-> <<>>, error_log |-> <<>>, current_state |-> "PLANNING"]

\* TeamManager.__init__: the context built for task over the loaded log
NewContext(task, mems) ==
  SharedContext(task, TargetPath, RepoMap,
                FindSimilarExperiences(mems, task, DEFAULT_TOP_K))

\* main(): the branch rev-parse reports, and the file before any transplant.
OriginalBranch == "main"
OriginalTarget == <<"o">>

\* The repository before create_branch: HEAD, the branches, whether the
\* work tree has changes, the stash, the git commands run.
InitialGit(dirty) ==
  [head |-> OriginalBranch, branches |-> {OriginalBranch}, dirty |-> dirty,
   stash |-> 0, log |-> <<>>]

NotValidated == [status |-> "none", detail |-> <<>>]

\* The model roster, main_hybrid.py:53-82
MODEL_ARCHITECT == "gpt-4o"
LOCAL_CODER == "ollama/qwen2.5-coder:14b"
LOCAL_CLERK == "ollama/llama3.2"
MODEL_FALLBACK == "gpt-4o-mini"

InitialModels ==
  [MODEL_ARCHITECT |-> MODEL_ARCHITECT, MODEL_CODER |-> LOCAL_CODER,
   MODEL_CLERK |-> LOCAL_CLERK]

\* No HybridAIClient built, no generate call made.
IdleClient ==
  [constructed |-> 0, probes |-> 0, last_probe |-> "none", generates |-> 0,
   role |-> "none", completions |-> <<>>, outcome |-> "none"]

\* The values of the variables a specification leaves alone.
MainIdle ==
  /\ instruction = Task
  /\ validated = NotValidated
  /\ git = InitialGit(FALSE)
  /\ target_file = OriginalTarget

RouterIdle ==
  /\ models = InitialModels
  /\ client = IdleClient

NoQuery == [task |-> <<>>, top_k |-> 0, records |-> <<>>]

QueryIdle == retrieved = NoQuery

\* No script started.
NoScript == [program |-> "none"]

ScriptIdle == script = NoScript

\* No execution besides the one modelled in full.
NoManagers == [events |-> <<>>]

SharedLogIdle == managers = NoManagers

\* TeamManager.__init__ with MemoryManager._load_memories
Init ==
  /\ memory_file \in LoadedLogs
  /\ memories = memory_file
  /\ context = NewContext(Task, memories)
  /\ pc = "dispatch"
  /\ i = 0
  /\ plan = <<>>
  /\ lint_results = <<>>
  /\ workspace = [f \in {"repro_test.py", "solution.py"} |-> NoFile]
  /\ metrics = <<>>
  /\ exc = "none"
  /\ result = NoResult
  /\ obs = [calls |-> [p \in Personas |-> 0],
            last |-> [p \in Personas |-> NoText],
            validator |-> <<>>, coding_runs |-> <<>>, refactor_runs |-> <<>>,
            coding_prompts |-> <<>>, tested |-> NoFile, untested_writes |-> 0,
            lint_runs |-> <<>>, states |-> <<"PLANNING">>,
            loaded |-> memory_file]
  /\ MainIdle
  /\ RouterIdle
  /\ QueryIdle
  /\ ScriptIdle
  /\ SharedLogIdle

-----------------------------------------------------------------------------
(* Helpers of the steps                                                    *)

\* track_agent_execution: the sample is recorded in the finally clause.
RecordMetric(m, persona, phase) ==
  Append(m, [agent |-> Role(persona), phase |-> phase])

CleanContentUnstripped(content) == content

CleanContentPythonFenceOnly(content) == Strip(Remove(content, FencePython))

\* _write_to_workspace: the text that reaches the file.
CleanContent(content) == Strip(Remove(Remove(content, FencePython), Fence))

WriteToWorkspace(ws, filename, content) ==
  [ws EXCEPT ![filename] = CleanContent(content)]

SaveExperienceAlwaysSuccess(mems, task, success, solution) ==
  Append(mems, [task |-> task, success |-> TRUE, solution |-> solution])

SaveExperienceOverwrites(mems, task, success, solution) ==
  <<[task |-> task, success |-> success, solution |-> solution]>>

\* MemoryManager.save_experience (the timestamp is left out).
SaveExperience(mems, task, success, solution) ==
  Append(mems, [task |-> task, success |-> success, solution |-> solution])

ApprovedCaseSensitive(validation) == Contains(validation, ApprovalToken)

\* "APPROVED" in validation.upper()
Approved(validation) == Contains(Upper(validation), ApprovalToken)

\* The text _run_linter returns on FileNotFoundError.
FlakeNotFound ==
  <<"f", "l", "a", "k", "e", "8", " ", "n", "o", "t", " ", "f", "o", "u",
    "n", "d", ".", " ", "P", "l", "e", "a", "s", "e", " ", "i", "n", "s",
    "t", "a", "l", "l", " ", "i", "t", " ", "w", "i", "t", "h", " ", "'",
    "p", "i", "p", " ", "i", "n", "s", "t", "a", "l", "l", " ", "f", "l",
    "a", "k", "e", "8", "'", ".">>

\* _run_linter
RunLinter(run) == IF run.missing THEN FlakeNotFound ELSE Strip(run.stdout)

Called(o, persona) == [o EXCEPT !.calls[persona] = @ + 1]

Answered(o, persona, text) ==
  [o EXCEPT !.calls[persona] = @ + 1, !.last[persona] = text]

Entered(o, old, new) ==
  IF new = old THEN o ELSE [o EXCEPT !.states = Append(@, new)]

AgentRaisesCaughtByWorkflow(persona) ==
  /\ metrics' = RecordMetric(metrics, persona, context.current_state)
  /\ obs' = Called(obs, persona)
  /\ context' = [context EXCEPT !.current_state = "FAILED"]
  /\ pc' = "dispatch"
  /\ exc' = "AgentError"
  /\ UNCHANGED <<i, plan, lint_results, workspace, memories, memory_file,
                 result>>

AgentRaisesUnrecorded(persona) ==
  /\ obs' = Called(obs, persona)
  /\ pc' = "raised"
  /\ exc' = "AgentError"
  /\ UNCHANGED <<context, i, plan, lint_results, workspace, memories,
                 memory_file, metrics, result>>

\* A model call that fails on both tiers: AgentError leaves execute_workflow.
AgentRaises(persona) ==
  /\ metrics' = RecordMetric(metrics, persona, context.current_state)
  /\ obs' = Called(obs, persona)
  /\ pc' = "raised"
  /\ exc' = "AgentError"
  /\ UNCHANGED <<context, i, plan, lint_results, workspace, memories,
                 memory_file, result>>

-----------------------------------------------------------------------------
(* execute_workflow: the while loop                                        *)

PhaseEntry(state) ==
  CASE state = "PLANNING" -> "plan_architect"
    [] state = "GENERATE_TESTS" -> "generate_tests"
    [] state = "CODING" -> "code_generate"
    [] state = "REFACTORING" -> "refactor_lint"
    [] state = "AUDIT" -> "audit"

DispatchKeepsCounter ==
  /\ pc = "dispatch"
  /\ context.current_state \notin TerminalStates
  /\ pc' = PhaseEntry(context.current_state)
  /\ UNCHANGED <<context, i, plan, lint_results, workspace, memories,
                 memory_file, metrics, exc, result, obs>>
  /\ UNCHANGED outside

\* The loop test and the dispatch on current_state; each phase starts its
\* own for loop at 0.
Dispatch ==
  /\ pc = "dispatch"
  /\ context.current_state \notin TerminalStates
  /\ pc' = PhaseEntry(context.current_state)
  /\ i' = 0
  /\ UNCHANGED <<context, plan, lint_results, workspace, memories,
                 memory_file, metrics, exc, result, obs>>
  /\ UNCHANGED outside

\* After the loop: record the experience and return.
Finish ==
  /\ pc = "dispatch"
  /\ context.current_state \in TerminalStates
  /\ memories' = SaveExperience(memories, context.task,
                                context.current_state = "DONE",
                                context.solution_code)
  /\ memory_file' = memories'
  /\ result' = (context.current_state = "DONE")
  /\ pc' = "returned"
  /\ UNCHANGED <<context, i, plan, lint_results, workspace, metrics, exc, obs>>
  /\ UNCHANGED outside

-----------------------------------------------------------------------------
(* _planning_phase                                                         *)

\* The Architect call of attempt i.
PlanningArchitect ==
  /\ pc = "plan_architect"
  /\ \/ AgentRaises("ARCHITECT")
     \/ \E text \in Plans :
          /\ plan' = text
          /\ metrics' = RecordMetric(metrics, "ARCHITECT", context.current_state)
          /\ obs' = Answered(obs, "ARCHITECT", text)
          /\ pc' = "plan_validator"
          /\ UNCHANGED <<context, i, lint_results, workspace, memories,
                         memory_file, exc, result>>
  /\ UNCHANGED outside

HasNextAttemptOffByOne(n) == n + 1 <= MAX_RETRIES

\* for i in range(MAX_RETRIES): is there an attempt after attempt n?
HasNextAttempt(n) == n + 1 < MAX_RETRIES

PlanningAfterValidationSoftFail(ctx, n, p, validation) ==
  IF Approved(validation) \/ ~HasNextAttempt(n)
  THEN [context |-> [ctx EXCEPT !.plan = p, !.current_state = "GENERATE_TESTS"],
        i |-> n, pc |-> "dispatch"]
  ELSE [context |-> [ctx EXCEPT !.critique = validation],
        i |-> n + 1, pc |-> "plan_architect"]

\* What _planning_phase does with the Validator's answer to attempt n.
PlanningAfterValidation(ctx, n, p, validation) ==
  IF Approved(validation)
  THEN [context |-> [ctx EXCEPT !.plan = p, !.current_state = "GENERATE_TESTS"],
        i |-> n, pc |-> "dispatch"]
  ELSE IF HasNextAttempt(n)
       THEN [context |-> [ctx EXCEPT !.critique = validation],
             i |-> n + 1, pc |-> "plan_architect"]
       ELSE [context |-> [ctx EXCEPT !.critique = validation,
                                     !.current_state = "FAILED"],
             i |-> n, pc |-> "dispatch"]

\* The Validator call of attempt i and the branch on its answer.
PlanningValidator ==
  /\ pc = "plan_validator"
  /\ \/ AgentRaises("VALIDATOR")
     \/ \E text \in ValidatorResponses :
          LET next == PlanningAfterValidation(context, i, plan, text) IN
          /\ context' = next.context
          /\ i' = next.i
          /\ pc' = next.pc
          /\ metrics' = RecordMetric(metrics, "VALIDATOR", context.current_state)
          /\ obs' = Entered([Answered(obs, "VALIDATOR", text)
                               EXCEPT !.validator = Append(@, text)],
                            context.current_state, next.context.current_state)
          /\ UNCHANGED <<plan, lint_results, workspace, memories, memory_file,
                         exc, result>>
  /\ UNCHANGED outside

-----------------------------------------------------------------------------
(* _test_generation_phase                                                  *)

GenerateTestsFromRetriesOnEmpty(answers) ==
  /\ \/ AgentRaises("QA_ENGINEER")
     \/ \E text \in answers :
          /\ context' = [context EXCEPT !.test_code = text,
                                        !.current_state =
                                          IF text = <<>> THEN @ ELSE "CODING"]
          /\ workspace' = WriteToWorkspace(workspace, "repro_test.py", text)
          /\ metrics' = RecordMetric(metrics, "QA_ENGINEER", context.current_state)
          /\ obs' = Entered(Answered(obs, "QA_ENGINEER", text),
                            context.current_state, context'.current_state)
          /\ pc' = "dispatch"
          /\ UNCHANGED <<i, plan, lint_results, memories, memory_file, exc, result>>
  /\ UNCHANGED outside

\* The body of _test_generation_phase: the QA call, answered with one of
\* answers, the harness stored and written.
GenerateTestsFrom(answers) ==
  /\ \/ AgentRaises("QA_ENGINEER")
     \/ \E text \in answers :
          /\ context' = [context EXCEPT !.test_code = text,
                                        !.current_state = "CODING"]
          /\ workspace' = WriteToWorkspace(workspace, "repro_test.py", text)
          /\ metrics' = RecordMetric(metrics, "QA_ENGINEER", context.current_state)
          /\ obs' = Entered(Answered(obs, "QA_ENGINEER", text),
                            context.current_state, "CODING")
          /\ pc' = "dispatch"
          /\ UNCHANGED <<i, plan, lint_results, memories, memory_file, exc, result>>
  /\ UNCHANGED outside

GenerateTests ==
  /\ pc = "generate_tests"
  /\ GenerateTestsFrom(TestHarnesses)

-----------------------------------------------------------------------------
(* _coding_phase                                                           *)

CodingPersonaAlwaysCoder(n) == "CODER"

\* Attempt 0 is the Coder's, every later attempt the Debugger's.
CodingPersona(n) == IF n = 0 THEN "CODER" ELSE "DEBUGGER"

CodePromptDebuggerSeesPlan(ctx, n) ==
  [agent |-> CodingPersona(n),
   plan |-> ctx.plan,
   test_code |-> ctx.test_code,
   error_log |-> IF n = 0 THEN NoText ELSE ctx.error_log]

\* code_prompt and agent of attempt n: the context fields the prompt quotes
\* (NoText for a field it leaves out) and the persona it goes to.
CodePrompt(ctx, n) ==
  [agent |-> CodingPersona(n),
   plan |-> IF n = 0 THEN ctx.plan ELSE NoText,
   test_code |-> ctx.test_code,
   error_log |-> IF n = 0 THEN NoText ELSE ctx.error_log]

\* The generation of attempt i, stored and written to solution.py.
CodingGenerate ==
  /\ pc = "code_generate"
  /\ \/ AgentRaises(CodePrompt(context, i).agent)
     \/ \E text \in Codes :
          /\ context' = [context EXCEPT !.solution_code = text]
          /\ workspace' = WriteToWorkspace(workspace, "solution.py", text)
          /\ metrics' = RecordMetric(metrics, CodingPersona(i), context.current_state)
          /\ obs' = [Answered(obs, CodePrompt(context, i).agent, text)
                       EXCEPT !.coding_prompts = Append(@, CodePrompt(context, i)),
                              !.untested_writes = @ + 1]
          /\ pc' = "code_verify"
          /\ UNCHANGED <<i, plan, lint_results, memories, memory_file, exc, result>>
  /\ UNCHANGED outside

CodingAfterVerifySkipsRefactoring(ctx, n, res) ==
  IF res.returncode = 0
  THEN [context |-> [ctx EXCEPT !.current_state = "AUDIT"],
        i |-> n, pc |-> "dispatch"]
  ELSE IF HasNextAttempt(n)
       THEN [context |-> [ctx EXCEPT !.error_log = res.stderr \o res.stdout],
             i |-> n + 1, pc |-> "code_generate"]
       ELSE [context |-> [ctx EXCEPT !.error_log = res.stderr \o res.stdout,
                                     !.current_state = "FAILED"],
             i |-> n, pc |-> "dispatch"]

CodingAfterVerifyStartsOver(ctx, n, res) ==
  IF res.returncode = 0
  THEN [context |-> [ctx EXCEPT !.current_state = "REFACTORING"],
        i |-> n, pc |-> "dispatch"]
  ELSE IF HasNextAttempt(n)
       THEN [context |-> [ctx EXCEPT !.error_log = res.stderr \o res.stdout],
             i |-> n + 1, pc |-> "code_generate"]
       ELSE [context |-> [ctx EXCEPT !.error_log = res.stderr \o res.stdout],
             i |-> n, pc |-> "dispatch"]

CodingAfterVerifyDropsHarness(ctx, n, res) ==
  IF res.returncode = 0
  THEN [context |-> [ctx EXCEPT !.current_state = "REFACTORING"],
        i |-> n, pc |-> "dispatch"]
  ELSE IF HasNextAttempt(n)
       THEN [context |-> [ctx EXCEPT !.error_log = res.stderr \o res.stdout,
                                     !.test_code = <<>>],
             i |-> n + 1, pc |-> "code_generate"]
       ELSE [context |-> [ctx EXCEPT !.error_log = res.stderr \o res.stdout,
                                     !.current_state = "FAILED"],
             i |-> n, pc |-> "dispatch"]

\* What _coding_phase does with the completed test run of attempt n.
CodingAfterVerify(ctx, n, res) ==
  IF res.returncode = 0
  THEN [context |-> [ctx EXCEPT !.current_state = "REFACTORING"],
        i |-> n, pc |-> "dispatch"]
  ELSE IF HasNextAttempt(n)
       THEN [context |-> [ctx EXCEPT !.error_log = res.stderr \o res.stdout],
             i |-> n + 1, pc |-> "code_generate"]
       ELSE [context |-> [ctx EXCEPT !.error_log = res.stderr \o res.stdout,
                                     !.current_state = "FAILED"],
             i |-> n, pc |-> "dispatch"]

\* subprocess.run(timeout=10) raises TimeoutExpired, which nothing between
\* here and the caller of execute_workflow catches.
VerifyTimesOut ==
  /\ pc' = "raised"
  /\ exc' = "TimeoutExpired"
  /\ UNCHANGED <<context, i, plan, lint_results, workspace, memories,
                 memory_file, metrics, result>>

\* The test run of attempt i and the branch on its exit code.
CodingVerify ==
  /\ pc = "code_verify"
  /\ \E res \in TestResults :
       /\ obs' = IF res.timeout
                 THEN [obs EXCEPT !.coding_runs = Append(@, res),
                                !.tested = workspace["solution.py"],
                                !.untested_writes = 0]
                 ELSE Entered([obs EXCEPT !.coding_runs = Append(@, res),
                                !.tested = workspace["solution.py"],
                                !.untested_writes = 0],
                              context.current_state,
                              CodingAfterVerify(context, i, res).context.current_state)
       /\ \/ res.timeout /\ VerifyTimesOut
          \/ /\ ~res.timeout
             /\ LET next == CodingAfterVerify(context, i, res) IN
                /\ context' = next.context
                /\ i' = next.i
                /\ pc' = next.pc
             /\ UNCHANGED <<plan, lint_results, workspace, memories, memory_file,
                            metrics, exc, result>>
  /\ UNCHANGED outside

-----------------------------------------------------------------------------
(* _refactoring_phase                                                      *)

RefactoringAfterLintToAuditAnyway(ctx, results) ==
  [context |-> [ctx EXCEPT !.current_state = "AUDIT"], pc |-> "dispatch"]

\* What _refactoring_phase does with the linter's answer.
RefactoringAfterLint(ctx, results) ==
  IF results = <<>>
  THEN [context |-> [ctx EXCEPT !.current_state = "AUDIT"], pc |-> "dispatch"]
  ELSE [context |-> ctx, pc |-> "refactor_generate"]

\* The lint run of attempt i.
RefactorLint ==
  /\ pc = "refactor_lint"
  /\ \E run \in LintRuns :
       LET next == RefactoringAfterLint(context, RunLinter(run)) IN
       /\ lint_results' = RunLinter(run)
       /\ context' = next.context
       /\ pc' = next.pc
       /\ obs' = Entered([obs EXCEPT !.lint_runs = Append(@, run)],
                         context.current_state, next.context.current_state)
       /\ UNCHANGED <<i, plan, workspace, memories, memory_file, metrics, exc,
                      result>>
  /\ UNCHANGED outside

RefactorGenerateWritesOnly ==
  /\ pc = "refactor_generate"
  /\ \/ AgentRaises("REFACTOR_AGENT")
     \/ \E text \in Codes :
          /\ workspace' = WriteToWorkspace(workspace, "solution.py", text)
          /\ metrics' = RecordMetric(metrics, "REFACTOR_AGENT", context.current_state)
          /\ obs' = [Answered(obs, "REFACTOR_AGENT", text)
                       EXCEPT !.untested_writes = @ + 1]
          /\ pc' = "refactor_verify"
          /\ UNCHANGED <<context, i, plan, lint_results, memories, memory_file,
                         exc, result>>
  /\ UNCHANGED outside

\* The Refactor persona's rewrite, stored and written to solution.py.
RefactorGenerate ==
  /\ pc = "refactor_generate"
  /\ \/ AgentRaises("REFACTOR_AGENT")
     \/ \E text \in Codes :
          /\ context' = [context EXCEPT !.solution_code = text]
          /\ workspace' = WriteToWorkspace(workspace, "solution.py", text)
          /\ metrics' = RecordMetric(metrics, "REFACTOR_AGENT", context.current_state)
          /\ obs' = [Answered(obs, "REFACTOR_AGENT", text)
                       EXCEPT !.untested_writes = @ + 1]
          /\ pc' = "refactor_verify"
          /\ UNCHANGED <<i, plan, lint_results, memories, memory_file, exc, result>>
  /\ UNCHANGED outside

RefactoringAfterVerifyRetries(ctx, n, res) ==
  IF HasNextAttempt(n)
  THEN [context |-> ctx, i |-> n + 1, pc |-> "refactor_lint"]
  ELSE [context |-> [ctx EXCEPT !.current_state =
                       IF res.returncode # 0 THEN "FAILED" ELSE "AUDIT"],
        i |-> n, pc |-> "dispatch"]

RefactoringAfterVerifyHardFail(ctx, n, res) ==
  IF res.returncode = 0 /\ HasNextAttempt(n)
  THEN [context |-> ctx, i |-> n + 1, pc |-> "refactor_lint"]
  ELSE [context |-> [ctx EXCEPT !.current_state = "FAILED"],
        i |-> n, pc |-> "dispatch"]

RefactoringAfterVerifyStraightToAudit(ctx, n, res) ==
  [context |-> [ctx EXCEPT !.current_state =
                  IF res.returncode # 0 THEN "FAILED" ELSE "AUDIT"],
   i |-> n, pc |-> "dispatch"]

RefactoringAfterVerifyIgnoresExitCode(ctx, n, res) ==
  IF HasNextAttempt(n)
  THEN [context |-> ctx, i |-> n + 1, pc |-> "refactor_lint"]
  ELSE [context |-> [ctx EXCEPT !.current_state = "AUDIT"],
        i |-> n, pc |-> "dispatch"]

\* What _refactoring_phase does with the completed re-run of attempt n.
RefactoringAfterVerify(ctx, n, res) ==
  IF res.returncode # 0
  THEN [context |-> [ctx EXCEPT !.current_state = "FAILED"],
        i |-> n, pc |-> "dispatch"]
  ELSE IF HasNextAttempt(n)
       THEN [context |-> ctx, i |-> n + 1, pc |-> "refactor_lint"]
       ELSE [context |-> [ctx EXCEPT !.current_state = "AUDIT"],
             i |-> n, pc |-> "dispatch"]

\* The test re-run of attempt i and the branch on its exit code.
RefactorVerify ==
  /\ pc = "refactor_verify"
  /\ \E res \in TestResults :
       /\ obs' = IF res.timeout
                 THEN [obs EXCEPT !.refactor_runs = Append(@, res),
                                !.tested = workspace["solution.py"],
                                !.untested_writes = 0]
                 ELSE Entered([obs EXCEPT !.refactor_runs = Append(@, res),
                                !.tested = workspace["solution.py"],
                                !.untested_writes = 0],
                              context.current_state,
                              RefactoringAfterVerify(context, i, res).context.current_state)
       /\ \/ res.timeout /\ VerifyTimesOut
          \/ /\ ~res.timeout
             /\ LET next == RefactoringAfterVerify(context, i, res) IN
                /\ context' = next.context
                /\ i' = next.i
                /\ pc' = next.pc
             /\ UNCHANGED <<plan, lint_results, workspace, memories, memory_file,
                            metrics, exc, result>>
  /\ UNCHANGED outside

-----------------------------------------------------------------------------
(* _audit_phase                                                            *)

Reviews == { <<"L", "G", "T", "M">> }

\* The body of _audit_phase: the Auditor call, answered with one of answers.
AuditFrom(answers) ==
  /\ \/ AgentRaises("AUDITOR")
     \/ \E text \in answers :
          /\ context' = [context EXCEPT !.critique = text, !.current_state = "DONE"]
          /\ metrics' = RecordMetric(metrics, "AUDITOR", context.current_state)
          /\ obs' = Entered(Answered(obs, "AUDITOR", text),
                            context.current_state, "DONE")
          /\ pc' = "dispatch"
          /\ UNCHANGED <<i, plan, lint_results, workspace, memories, memory_file,
                         exc, result>>
  /\ UNCHANGED outside

Audit ==
  /\ pc = "audit"
  /\ AuditFrom(Reviews)

-----------------------------------------------------------------------------
Next ==
  \/ Dispatch
  \/ PlanningArchitect
  \/ PlanningValidator
  \/ GenerateTests
  \/ CodingGenerate
  \/ CodingVerify
  \/ RefactorLint
  \/ RefactorGenerate
  \/ RefactorVerify
  \/ Audit
  \/ Finish

Spec == Init /\ [][Next]_vars

-----------------------------------------------------------------------------
(* Vocabulary of the properties                                            *)

Range(s) == { s[k] : k \in 1..Len(s) }

\* state b was entered directly from state a
Follows(a, b) ==
  \E k \in 1..(Len(obs.states) - 1) : obs.states[k] = a /\ obs.states[k + 1] = b

Passed(res) == ~res.timeout /\ res.returncode = 0
ExitedNonZero(res) == ~res.timeout /\ res.returncode # 0

\* run n of runs is the first to exit 0, the runs before it exited non-zero
FirstPassAt(runs, n) ==
  /\ Len(runs) >= n
  /\ Passed(runs[n])
  /\ \A k \in 1..(n - 1) : ExitedNonZero(runs[k])

CoderClassCalls == obs.calls["CODER"] + obs.calls["DEBUGGER"]

\* the text of the latest Coder or Debugger generation
LatestCoding ==
  IF obs.last["DEBUGGER"] # NoText THEN obs.last["DEBUGGER"] ELSE obs.last["CODER"]

\* the solution text produced last, empty when none was
LastProduced ==
  IF obs.last["REFACTOR_AGENT"] # NoText THEN obs.last["REFACTOR_AGENT"]
  ELSE IF LatestCoding # NoText THEN LatestCoding ELSE <<>>

\* a generated program without its code fence and surrounding whitespace
Unfenced(text) ==
  CASE text = CodePythonFenced -> ProgramA
    [] text = CodePlainFenced -> ProgramB

\* the Validator answers that hold the approval token, in whatever case
Approving == { ApprovalToken, PlanApproved }

\* the lint run found the tool and the tool reported something
ReportsIssues(run) == ~run.missing /\ \E k \in 1..Len(run.stdout) : ~IsSpace(run.stdout[k])

-----------------------------------------------------------------------------
\* C1: when the CODING test run first exits 0 on attempt n (n <= MAX_RETRIES),
\* the harness has been run exactly n times in CODING, exactly n Coder or
\* Debugger generations have been made, REFACTORING is entered from CODING,
\* and until a refactor rewrite solution.py holds the n-th generated code
\* without its code fence.
C1_CodingSucceedsOnAttempt ==
  \A n \in 1..MAX_RETRIES :
    FirstPassAt(obs.coding_runs, n) =>
      /\ Len(obs.coding_runs) = n
      /\ CoderClassCalls = n
      /\ Follows("CODING", "REFACTORING")
      /\ (pc = "dispatch" /\ obs.lint_runs = <<>>) =>
           context.current_state = "REFACTORING"
      /\ obs.last["REFACTOR_AGENT"] = NoText =>
           workspace["solution.py"] = Unfenced(LatestCoding)

\* Coding passed on the last allowed attempt and REFACTORING is about to start.
C1_Witness ==
  /\ FirstPassAt(obs.coding_runs, MAX_RETRIES)
  /\ pc = "dispatch"
  /\ context.current_state = "REFACTORING"
  /\ LatestCoding = CodePlainFenced

\* C2: when all MAX_RETRIES test runs of CODING exit non-zero, the state is
\* FAILED after exactly MAX_RETRIES generations and runs, REFACTORING and
\* AUDIT are never entered, and the experience recorded has success false
\* and the last generated code as its solution.
C2_CodingNeverSucceeds ==
  ( /\ Len(obs.coding_runs) = MAX_RETRIES
    /\ \A k \in 1..MAX_RETRIES : ExitedNonZero(obs.coding_runs[k]) ) =>
      /\ context.current_state = "FAILED"
      /\ pc \in {"dispatch", "returned"}
      /\ CoderClassCalls = MAX_RETRIES
      /\ obs.calls["CODER"] = 1
      /\ "REFACTORING" \notin Range(obs.states)
      /\ "AUDIT" \notin Range(obs.states)
      /\ obs.lint_runs = <<>> /\ obs.refactor_runs = <<>>
      /\ obs.calls["REFACTOR_AGENT"] = 0 /\ obs.calls["AUDITOR"] = 0
      /\ pc = "returned" =>
           /\ result = FALSE
           /\ memories = Append(obs.loaded,
                [task |-> Task, success |-> FALSE, solution |-> obs.last["DEBUGGER"]])

\* Coding failed three times and the failed experience is on record.
C2_Witness ==
  /\ Len(obs.coding_runs) = MAX_RETRIES
  /\ \A k \in 1..MAX_RETRIES : ExitedNonZero(obs.coding_runs[k])
  /\ pc = "returned"
  /\ Last(memories).solution = CodePythonFenced

\* C3: a test run that hits its timeout is handled like a non-zero exit: no
\* exception leaves the controller, the attempt is used up, and the phase
\* goes on to its next attempt or, in CODING on exhaustion, to FAILED.
C3_TimeoutIsOrdinaryFailure ==
  /\ exc # "TimeoutExpired"
  /\ (obs.coding_runs # <<>> /\ Last(obs.coding_runs).timeout) =>
       /\ pc # "raised"
       /\ Len(obs.coding_runs) = MAX_RETRIES => context.current_state = "FAILED"
  /\ (obs.refactor_runs # <<>> /\ Last(obs.refactor_runs).timeout) =>
       pc # "raised"

\* C4: when the test re-run after a refactor rewrite exits non-zero, the state
\* is FAILED at once: that run is the last one, and no lint run, Refactor
\* call or Auditor call follows it, whatever attempts remain.
C4_RefactorRegressionIsHardStop ==
  \A k \in 1..Len(obs.refactor_runs) :
    ExitedNonZero(obs.refactor_runs[k]) =>
      /\ k = Len(obs.refactor_runs)
      /\ context.current_state = "FAILED"
      /\ pc \in {"dispatch", "returned"}
      /\ Len(obs.lint_runs) = k
      /\ obs.calls["REFACTOR_AGENT"] = k
      /\ obs.calls["AUDITOR"] = 0
      /\ "AUDIT" \notin Range(obs.states)

\* The first rewrite broke the tests, with two attempts left, and the run is over.
C4_Witness ==
  /\ Len(obs.refactor_runs) = 1
  /\ ExitedNonZero(obs.refactor_runs[1])
  /\ ReportsIssues(obs.lint_runs[1])
  /\ pc = "returned"

\* C5: a lint run that finds no flake8 executable counts as clean: it is the
\* last lint run, AUDIT is entered, and no Refactor call or rewrite of
\* solution.py follows it.
C5_MissingLinterIsClean ==
  \A k \in 1..Len(obs.lint_runs) :
    obs.lint_runs[k].missing =>
      /\ k = Len(obs.lint_runs)
      /\ "AUDIT" \in Range(obs.states)
      /\ obs.calls["REFACTOR_AGENT"] = k - 1
      /\ pc # "refactor_generate"

\* C6: when all MAX_RETRIES lint runs report issues and all MAX_RETRIES test
\* re-runs pass, REFACTORING hands over to AUDIT, not FAILED, and the run can
\* end in DONE.
C6_RefactorExhaustionGoesToAudit ==
  ( /\ Len(obs.refactor_runs) = MAX_RETRIES
    /\ \A k \in 1..MAX_RETRIES : Passed(obs.refactor_runs[k])
    /\ \A k \in 1..Len(obs.lint_runs) : ReportsIssues(obs.lint_runs[k]) ) =>
      /\ Follows("REFACTORING", "AUDIT")
      /\ context.current_state \in {"AUDIT", "DONE"}
      /\ Len(obs.lint_runs) = MAX_RETRIES
      /\ obs.calls["REFACTOR_AGENT"] = MAX_RETRIES
      /\ pc = "returned" => result = TRUE

\* Three rewrites, each lint run with issues, each re-run passing: DONE.
C6_Witness ==
  /\ Len(obs.refactor_runs) = MAX_RETRIES
  /\ \A k \in 1..MAX_RETRIES : Passed(obs.refactor_runs[k])
  /\ \A k \in 1..Len(obs.lint_runs) : ReportsIssues(obs.lint_runs[k])
  /\ context.current_state = "DONE"
  /\ pc = "returned"
  /\ result = TRUE

\* the first n Validator answers exist and none holds the approval token
AllRejected(n) ==
  /\ Len(obs.validator) >= n
  /\ \A k \in 1..n : obs.validator[k] \notin Approving

\* answer n of the Validator is the first to hold the approval token
FirstApprovalAt(n) ==
  /\ Len(obs.validator) >= n
  /\ obs.validator[n] \in Approving
  /\ \A k \in 1..(n - 1) : obs.validator[k] \notin Approving

\* C7, as stated: in a run whose first MAX_RETRIES Validator answers are
\* rejections, planning does not end before attempt MAX_RETRIES + 1: once
\* PLANNING is left, MAX_RETRIES + 1 Architect and Validator calls have been
\* made and context.plan is the last Architect output.
C7_PlanningTakesRPlusOneAttempts ==
  (AllRejected(MAX_RETRIES) /\ context.current_state # "PLANNING") =>
    /\ obs.calls["ARCHITECT"] = MAX_RETRIES + 1
    /\ obs.calls["VALIDATOR"] = MAX_RETRIES + 1
    /\ context.plan = obs.last["ARCHITECT"]

\* C7, amended: for MAX_RETRIES - 1 rejections followed by one approval,
\* exactly MAX_RETRIES Architect and MAX_RETRIES Validator calls occur and
\* context.plan is the MAX_RETRIES-th Architect output; there is never an
\* attempt MAX_RETRIES + 1, and MAX_RETRIES rejections end PLANNING in FAILED.
C7_PlanningTakesAtMostRAttempts ==
  /\ obs.calls["ARCHITECT"] <= MAX_RETRIES
  /\ obs.calls["VALIDATOR"] <= MAX_RETRIES
  /\ AllRejected(MAX_RETRIES) => context.current_state = "FAILED"
  /\ (AllRejected(MAX_RETRIES - 1) /\ FirstApprovalAt(MAX_RETRIES)) =>
       /\ obs.calls["ARCHITECT"] = MAX_RETRIES
       /\ obs.calls["VALIDATOR"] = MAX_RETRIES
       /\ context.plan = obs.last["ARCHITECT"]
       /\ Follows("PLANNING", "GENERATE_TESTS")

\* Two rejections, then the approval of the third plan.
C7_Witness ==
  /\ AllRejected(MAX_RETRIES - 1)
  /\ FirstApprovalAt(MAX_RETRIES)
  /\ context.current_state = "GENERATE_TESTS"
  /\ context.plan = <<"p", "2">>

\* C8: when the Validator's answer to attempt n (n <= MAX_RETRIES) is the
\* first to hold APPROVED in any case, exactly n Architect and n Validator
\* calls have been made, context.plan is the n-th Architect output, and
\* GENERATE_TESTS is entered from PLANNING.
C8_ApprovalOnAttempt ==
  \A n \in 1..MAX_RETRIES :
    FirstApprovalAt(n) =>
      /\ Len(obs.validator) = n
      /\ obs.calls["ARCHITECT"] = n
      /\ obs.calls["VALIDATOR"] = n
      /\ context.plan = obs.last["ARCHITECT"]
      /\ Follows("PLANNING", "GENERATE_TESTS")
      /\ (pc = "dispatch" /\ obs.calls["QA_ENGINEER"] = 0) =>
           context.current_state = "GENERATE_TESTS"

\* The second answer approves in lower case, after one rejection.
C8_Witness ==
  /\ obs.validator = <<ReviseIt, PlanApproved>>
  /\ pc = "dispatch"
  /\ context.current_state = "GENERATE_TESTS"

\* C9: when none of MAX_RETRIES Validator answers holds the approval token,
\* the state is FAILED after exactly MAX_RETRIES Architect and Validator
\* calls, no other persona is called, no test or lint run is made, and the
\* one experience recorded is a failure with the empty solution.
C9_PlanningNeverApproved ==
  AllRejected(MAX_RETRIES) =>
    /\ context.current_state = "FAILED"
    /\ pc \in {"dispatch", "returned"}
    /\ obs.calls["ARCHITECT"] = MAX_RETRIES
    /\ obs.calls["VALIDATOR"] = MAX_RETRIES
    /\ \A p \in Personas \ {"ARCHITECT", "VALIDATOR"} : obs.calls[p] = 0
    /\ obs.coding_runs = <<>> /\ obs.refactor_runs = <<>> /\ obs.lint_runs = <<>>
    /\ obs.states = <<"PLANNING", "FAILED">>
    /\ pc = "returned" =>
         /\ result = FALSE
         /\ memories = Append(obs.loaded,
              [task |-> Task, success |-> FALSE, solution |-> <<>>])

\* Three rejections and the failed experience on record after an older one.
C9_Witness ==
  /\ AllRejected(MAX_RETRIES)
  /\ pc = "returned"
  /\ Len(memories) = 2
  /\ Last(memories).solution = <<>>

\* C10: a run that has returned has appended exactly one record to the log
\* it loaded, leaving the older records as they were: success is true
\* exactly when the final state is DONE, and the solution is the text
\* produced last (empty when none was); before the return nothing is appended.
C10_OneExperiencePerRun ==
  /\ pc # "returned" => memories = obs.loaded /\ memory_file = obs.loaded
  /\ pc = "returned" =>
       /\ context.current_state \in TerminalStates
       /\ Len(memories) = Len(obs.loaded) + 1
       /\ SubSeq(memories, 1, Len(obs.loaded)) = obs.loaded
       /\ Last(memories).success = (context.current_state = "DONE")
       /\ Last(memories).success = result
       /\ Last(memories).solution = LastProduced
       /\ Last(memories).task = Task
       /\ memory_file = memories

\* A run that failed after a refactor rewrite, recorded after an older record.
C10_Witness ==
  /\ pc = "returned"
  /\ context.current_state = "FAILED"
  /\ obs.last["REFACTOR_AGENT"] = CodePlainFenced
  /\ Len(obs.loaded) = 1
  /\ ~Last(memories).success

-----------------------------------------------------------------------------
(* InputValidator, main_hybrid.py:88-118                                   *)

MAX_INSTRUCTION_LENGTH == 2000

\* "ignore previous", "ignore all", "system:", "disregard", "act as",
\* "you are a", "roleplay as"
PROMPT_INJECTION_PATTERNS ==
  <<
     <<"i", "g", "n", "o", "r", "e", " ", "p", "r", "e", "v", "i", "o",
       "u", "s">>,
     <<"i", "g", "n", "o", "r", "e", " ", "a", "l", "l">>,
     <<"s", "y", "s", "t", "e", "m", ":">>,
     <<"d", "i", "s", "r", "e", "g", "a", "r", "d">>,
     <<"a", "c", "t", " ", "a", "s">>,
     <<"y", "o", "u", " ", "a", "r", "e", " ", "a">>,
     <<"r", "o", "l", "e", "p", "l", "a", "y", " ", "a", "s">>
  >>

\* The deny-list entries found in lower_text, by their place in the list.
MatchingPatterns(lower_text) ==
  { k \in 1..Len(PROMPT_INJECTION_PATTERNS) :
      Contains(lower_text, PROMPT_INJECTION_PATTERNS[k]) }

Least(S) == CHOOSE k \in S : \A j \in S : k <= j

ValidateInstructionDenyListFirst(text) ==
  IF MatchingPatterns(Lower(text)) # {}
  THEN [status |-> "SecurityError",
        detail |-> PROMPT_INJECTION_PATTERNS[Least(MatchingPatterns(Lower(text)))]]
  ELSE IF Len(text) > MAX_INSTRUCTION_LENGTH
       THEN [status |-> "ValueError", detail |-> <<>>]
       ELSE [status |-> "ok", detail |-> text]

ValidateInstructionCaseSensitive(text) ==
  IF Len(text) > MAX_INSTRUCTION_LENGTH
  THEN [status |-> "ValueError", detail |-> <<>>]
  ELSE IF MatchingPatterns(text) # {}
       THEN [status |-> "SecurityError",
             detail |-> PROMPT_INJECTION_PATTERNS[Least(MatchingPatterns(text))]]
       ELSE [status |-> "ok", detail |-> text]

\* validate_instruction: the text returned, or the error raised; a
\* SecurityError names the first deny-list entry found.
ValidateInstruction(text) ==
  IF Len(text) > MAX_INSTRUCTION_LENGTH
  THEN [status |-> "ValueError", detail |-> <<>>]
  ELSE IF MatchingPatterns(Lower(text)) # {}
       THEN [status |-> "SecurityError",
             detail |-> PROMPT_INJECTION_PATTERNS[Least(MatchingPatterns(Lower(text)))]]
       ELSE [status |-> "ok", detail |-> text]

-----------------------------------------------------------------------------
(* HybridAIClient, main_hybrid.py:121-186                                  *)

\* "ollama" in model
IsOllama(model) == model \in {LOCAL_CODER, LOCAL_CLERK}

\* requests.get("http://localhost:11434/"): status 200, another status, or
\* an exception.
ProbeOutcomes == {"200", "503", "exception"}

\* _switch_to_fallback
SwitchToFallback(m) ==
  [m EXCEPT !.MODEL_CODER = MODEL_FALLBACK, !.MODEL_CLERK = MODEL_FALLBACK]

\* check_local_availability: is the endpoint asked at all?
Probes(m) == IsOllama(m.MODEL_CODER)

CheckLocalAvailabilityAlwaysProbes(m, probe) ==
  IF probe = "200" THEN InitialModels ELSE SwitchToFallback(m)

\* check_local_availability: the globals after it
CheckLocalAvailability(m, probe) ==
  IF Probes(m) /\ probe # "200" THEN SwitchToFallback(m) ELSE m

\* HybridAIClient.__init__: one more client, and one more request to the
\* endpoint if check_local_availability asks it.
ConstructClient(c, m, probe) ==
  [c EXCEPT !.constructed = @ + 1,
            !.probes = IF Probes(m) THEN @ + 1 ELSE @,
            !.last_probe = IF Probes(m) THEN probe ELSE "none"]

\* The roles generate is called with (AGENT_PERSONAS), and "Planner", which
\* the routing names.
Roles ==
  {"Architect", "Planner", "Auditor", "Python Dev", "QA Engineer", "Debugger",
   "Validator"}

\* Routing Logic
Route(role, m) ==
  IF role \in {"Architect", "Planner", "Auditor"} THEN m.MODEL_ARCHITECT
  ELSE IF role \in {"Python Dev", "QA Engineer", "Debugger"} THEN m.MODEL_CODER
  ELSE m.MODEL_CLERK

\* logging.Logger.info(msg, *args, **kwargs) hands its keywords to
\* Logger._log, which has none named details.
LoggerAcceptsDetails == FALSE

\* if model != MODEL_FALLBACK
Retries(model) == model # MODEL_FALLBACK

\* generate: the completion calls made, in order, and how the call ends.
\* The logger.info(..., details=...) of line 160 comes before the first
\* completion call; the logger of logger.py is enabled for INFO.
Generate(role, m, primary_ok, fallback_ok) ==
  LET model == Route(role, m)
  IN IF ~LoggerAcceptsDetails
     THEN [completions |-> <<>>, outcome |-> "TypeError"]
     ELSE IF primary_ok
     THEN [completions |-> <<model>>, outcome |-> "returned primary"]
     ELSE IF ~Retries(model)
     THEN [completions |-> <<model>>, outcome |-> "AgentError"]
     ELSE IF fallback_ok
     THEN [completions |-> <<model, MODEL_FALLBACK>>,
           outcome |-> "returned fallback"]
     ELSE [completions |-> <<model, MODEL_FALLBACK>>, outcome |-> "AgentError"]

-----------------------------------------------------------------------------
(* main(), main_hybrid.py:518-563, and GitGatekeeper, 226-247              *)

\* The branch create_branch makes (its name, built from the task and the
\* clock, is not modelled).
SandboxBranch == "agent"

\* What the command line may carry: a task; a task naming a deny-list entry
\* in mixed case; a text one character too long; a text too long that also
\* names a deny-list entry.
TooLong == [k \in 1..(MAX_INSTRUCTION_LENGTH + 1) |-> "a"]

Injection ==
  <<"A", "c", "t", " ", "A", "s", " ", "r", "o", "o", "t">>

MainInstructions == { Task, Injection, TooLong, Injection \o TooLong }

\* GitGatekeeper.create_branch
CreateBranch(g) ==
  LET stashed == IF g.dirty
                 THEN [g EXCEPT !.dirty = FALSE, !.stash = @ + 1,
                                !.log = Append(@, "stash save")]
                 ELSE g
  IN [stashed EXCEPT !.head = SandboxBranch,
                     !.branches = @ \cup {SandboxBranch},
                     !.log = Append(@, "checkout -b")]

\* git.run(["checkout", current_branch])
Checkout(g, branch) == [g EXCEPT !.head = branch, !.log = Append(@, "checkout")]

\* git.run(["branch", "-D", branch])
DeleteBranch(g, branch) ==
  [g EXCEPT !.branches = @ \ {branch}, !.log = Append(@, "branch -D")]

\* The state main() starts in: nothing validated, no TeamManager yet.
NoContext ==
  [SharedContext(<<>>, TargetPath, RepoMap, <<>>)
     EXCEPT !.current_state = "NoContext"]

MainInit ==
  /\ instruction \in MainInstructions
  /\ validated = NotValidated
  /\ git \in { InitialGit(d) : d \in BOOLEAN }
  /\ target_file = OriginalTarget
  /\ context = NoContext
  /\ pc = "main_validate"
  /\ i = 0
  /\ plan = <<>>
  /\ lint_results = <<>>
  /\ workspace = [f \in {"repro_test.py", "solution.py"} |-> NoFile]
  /\ memory_file \in LoadedLogs
  /\ memories = <<>>
  /\ metrics = <<>>
  /\ exc = "none"
  /\ result = NoResult
  /\ obs = [calls |-> [p \in Personas |-> 0],
            last |-> [p \in Personas |-> NoText],
            validator |-> <<>>, coding_runs |-> <<>>, refactor_runs |-> <<>>,
            coding_prompts |-> <<>>, tested |-> NoFile, untested_writes |-> 0,
            lint_runs |-> <<>>, states |-> <<>>, loaded |-> memory_file]
  /\ RouterIdle
  /\ QueryIdle
  /\ ScriptIdle
  /\ SharedLogIdle

AfterValidationIgnored(outcome) == "main_create_branch"

\* The try block after validate_instruction: on, or to the except clause.
AfterValidation(outcome) ==
  IF outcome.status = "ok" THEN "main_create_branch" ELSE "main_exited"

\* validated_instruction = InputValidator.validate_instruction(args.instruction)
MainValidate ==
  /\ pc = "main_validate"
  /\ validated' = ValidateInstruction(instruction)
  /\ pc' = AfterValidation(validated')
  /\ UNCHANGED <<instruction, git, target_file, routerVars, queryVars, scriptVars,
                 sharedLogVars>>
  /\ UNCHANGED <<context, i, plan, lint_results, workspace, memories,
                 memory_file, metrics, exc, result, obs>>

\* branch = git.create_branch(validated_instruction)
MainCreateBranch ==
  /\ pc = "main_create_branch"
  /\ git' = CreateBranch(git)
  /\ pc' = "main_construct"
  /\ UNCHANGED <<instruction, validated, target_file, routerVars, queryVars, scriptVars,
                 sharedLogVars>>
  /\ UNCHANGED <<context, i, plan, lint_results, workspace, memories,
                 memory_file, metrics, exc, result, obs>>

\* manager = TeamManager(validated_instruction, args.file): the client and
\* its probe, the memory and its load, the similar experiences, the context.
MainConstruct ==
  /\ pc = "main_construct"
  /\ \E probe \in ProbeOutcomes :
       /\ models' = CheckLocalAvailability(models, probe)
       /\ client' = ConstructClient(client, models, probe)
  /\ memories' = memory_file
  /\ retrieved' = [task |-> instruction, top_k |-> DEFAULT_TOP_K,
                   records |-> FindSimilarExperiences(memories', instruction,
                                                      DEFAULT_TOP_K)]
  /\ context' = NewContext(instruction, memories')
  /\ obs' = [obs EXCEPT !.states = <<"PLANNING">>, !.loaded = memory_file]
  /\ pc' = "dispatch"
  /\ UNCHANGED <<instruction, validated, git, target_file, scriptVars,
                 sharedLogVars>>
  /\ UNCHANGED <<i, plan, lint_results, workspace, memory_file, metrics, exc,
                 result>>

AfterWorkflowAlwaysTransplants(success) == "main_transplant"

\* if success: ... else: ...
AfterWorkflow(success) == IF success THEN "main_transplant" ELSE "main_revert"

\* success = manager.execute_workflow() has returned
MainWorkflowReturned ==
  /\ pc = "returned"
  /\ pc' = AfterWorkflow(result)
  /\ UNCHANGED <<mainVars, routerVars, queryVars, scriptVars,
                 sharedLogVars>>
  /\ UNCHANGED <<context, i, plan, lint_results, workspace, memories,
                 memory_file, metrics, exc, result, obs>>

\* shutil.copy(src, dst), then logger.info(..., details=...) at line 548:
\* logging.Logger.info takes no keyword details and the logger of logger.py
\* is enabled for INFO, so the call raises TypeError and git.commit at
\* line 550 is never reached.
MainTransplant ==
  /\ pc = "main_transplant"
  /\ target_file' = workspace["solution.py"]
  /\ exc' = "TypeError"
  /\ pc' = "raised"
  /\ UNCHANGED <<instruction, validated, git, routerVars, queryVars, scriptVars,
                 sharedLogVars>>
  /\ UNCHANGED <<context, i, plan, lint_results, workspace, memories,
                 memory_file, metrics, result, obs>>

\* The else branch: checkout of the original branch, deletion of the sandbox.
MainRevert ==
  /\ pc = "main_revert"
  /\ git' = DeleteBranch(Checkout(git, OriginalBranch), SandboxBranch)
  /\ pc' = "main_exited"
  /\ UNCHANGED <<instruction, validated, target_file, routerVars, queryVars, scriptVars,
                 sharedLogVars>>
  /\ UNCHANGED <<context, i, plan, lint_results, workspace, memories,
                 memory_file, metrics, exc, result, obs>>

\* except AgentError: the error is logged, nothing else.
MainAgentError ==
  /\ pc = "raised"
  /\ exc = "AgentError"
  /\ pc' = "main_exited"
  /\ UNCHANGED <<mainVars, routerVars, queryVars, scriptVars,
                 sharedLogVars>>
  /\ UNCHANGED <<context, i, plan, lint_results, workspace, memories,
                 memory_file, metrics, exc, result, obs>>

\* No except clause names TimeoutExpired or TypeError: they leave main().
MainUncaught ==
  /\ pc = "raised"
  /\ exc \in {"TimeoutExpired", "TypeError"}
  /\ pc' = "main_crashed"
  /\ UNCHANGED <<mainVars, routerVars, queryVars, scriptVars,
                 sharedLogVars>>
  /\ UNCHANGED <<context, i, plan, lint_results, workspace, memories,
                 memory_file, metrics, exc, result, obs>>

\* The places of the try block where Ctrl-C may arrive.
InTry == pc \notin {"raised", "main_exited", "main_crashed"}

\* except KeyboardInterrupt: checkout of the original branch.
MainInterrupt ==
  /\ InTry
  /\ exc' = "KeyboardInterrupt"
  /\ git' = Checkout(git, OriginalBranch)
  /\ pc' = "main_exited"
  /\ UNCHANGED <<instruction, validated, target_file, routerVars, queryVars, scriptVars,
                 sharedLogVars>>
  /\ UNCHANGED <<context, i, plan, lint_results, workspace, memories,
                 memory_file, metrics, result, obs>>

\* main() around the workflow of Spec. The model calls of the workflow end
\* as TeamManager sees them, with a text or with AgentError; what
\* HybridAIClient.generate does to get there is Generate, under SpecRouter.
MainNext ==
  \/ MainValidate
  \/ MainCreateBranch
  \/ MainConstruct
  \/ Dispatch
  \/ PlanningArchitect
  \/ PlanningValidator
  \/ GenerateTests
  \/ CodingGenerate
  \/ CodingVerify
  \/ RefactorLint
  \/ RefactorGenerate
  \/ RefactorVerify
  \/ Audit
  \/ Finish
  \/ MainWorkflowReturned
  \/ MainTransplant
  \/ MainRevert
  \/ MainAgentError
  \/ MainUncaught
  \/ MainInterrupt

SpecMain == MainInit /\ [][MainNext]_vars

-----------------------------------------------------------------------------
(* Claims about main()                                                     *)

Opened == "checkout -b" \in Range(git.log)

Exited == pc \in {"main_exited", "main_crashed"}

ExperienceAppended == memory_file # obs.loaded

Transplanted == target_file # OriginalTarget

\* C11: an AgentError raised by a model call of any phase is fatal: from the
\* raise on no phase runs (no further call, no state change, no file
\* written), execute_workflow does not return, no experience record is
\* appended and the target file is not touched.
C11_AgentErrorIsFatal ==
  /\ [](exc = "AgentError" =>
          /\ pc \in {"raised", "main_exited"}
          /\ result = NoResult
          /\ ~ExperienceAppended
          /\ ~Transplanted)
  /\ [][exc = "AgentError" =>
          /\ obs' = obs
          /\ context' = context
          /\ workspace' = workspace
          /\ memories' = memories]_vars

C11_Witness ==
  /\ exc = "AgentError"
  /\ pc = "main_exited"
  /\ obs.calls["DEBUGGER"] > 0
  /\ context.current_state = "CODING"

\* C12 (as claimed): once the sandbox branch is open, an exit after a FAILED
\* workflow, after an AgentError or after an interruption leaves the original
\* branch checked out and the sandbox branch deleted.
C12_NonSuccessExitAbandonsSandbox ==
  ( /\ Exited
    /\ Opened
    /\ \/ context.current_state = "FAILED"
       \/ exc \in {"AgentError", "KeyboardInterrupt"} )
  => /\ git.head = OriginalBranch
     /\ SandboxBranch \notin git.branches

\* C13: the target file is overwritten only after execute_workflow has ended
\* in DONE and recorded it, and then with solution.py; on every other outcome
\* it is unmodified; the sandbox branch is created before the first call of
\* the planning phase.
C13_FinalizeOnlyAfterDone ==
  /\ Transplanted =>
       /\ context.current_state = "DONE"
       /\ ExperienceAppended
       /\ Last(memory_file).success
       /\ target_file = workspace["solution.py"]
  /\ obs.calls["ARCHITECT"] > 0 => Opened
  /\ context # NoContext => Opened

C13_Witness ==
  /\ Transplanted
  /\ Exited
  /\ git.head = SandboxBranch

\* C14: a text the validator rejects ends main() at once: no branch, no
\* context, no client, no model call, no experience, and the verdict is
\* final.
C14_RejectionAbortsBeforeWorkflow ==
  /\ [](validated.status \in {"ValueError", "SecurityError"} =>
          /\ pc = "main_exited"
          /\ git.log = <<>>
          /\ git.branches = {OriginalBranch}
          /\ context = NoContext
          /\ client = IdleClient
          /\ memories = <<>>
          /\ \A p \in Personas : obs.calls[p] = 0
          /\ ~ExperienceAppended
          /\ ~Transplanted)
  /\ [][validated.status # "none" => validated' = validated]_vars

C14_Witness ==
  /\ validated.status = "SecurityError"
  /\ pc = "main_exited"

-----------------------------------------------------------------------------
(* InputValidator.validate_instruction called on its own                   *)

Pad(n) == [k \in 1..n |-> "a"]

\* What a text may carry: nothing, each deny-list entry in lower and in
\* upper case, an entry cut short, and two entries in the opposite of their
\* list order.
NearMisses ==
  { SubSeq(PROMPT_INJECTION_PATTERNS[k], 1, Len(PROMPT_INJECTION_PATTERNS[k]) - 1) :
      k \in 1..Len(PROMPT_INJECTION_PATTERNS) }

ValidatorCores ==
  { PROMPT_INJECTION_PATTERNS[k] : k \in 1..Len(PROMPT_INJECTION_PATTERNS) }
  \cup { Upper(PROMPT_INJECTION_PATTERNS[k]) : k \in 1..Len(PROMPT_INJECTION_PATTERNS) }
  \cup NearMisses
  \cup { <<>>, Injection \o <<" ">> \o Upper(PROMPT_INJECTION_PATTERNS[3]) }

\* The lengths around the limit.
ValidatorLengths ==
  { MAX_INSTRUCTION_LENGTH - 1, MAX_INSTRUCTION_LENGTH,
    MAX_INSTRUCTION_LENGTH + 1 }

\* Each core alone, and padded to each length with the core first or last.
ValidatorTexts ==
  ValidatorCores
  \cup { core \o Pad(n - Len(core)) : core \in ValidatorCores, n \in ValidatorLengths }
  \cup { Pad(n - Len(core)) \o core : core \in ValidatorCores, n \in ValidatorLengths }

ValidatorInit ==
  /\ instruction \in ValidatorTexts
  /\ validated = NotValidated
  /\ pc = "validate_call"
  /\ git = InitialGit(FALSE)
  /\ target_file = OriginalTarget
  /\ context = NoContext
  /\ i = 0
  /\ plan = <<>>
  /\ lint_results = <<>>
  /\ workspace = [f \in {"repro_test.py", "solution.py"} |-> NoFile]
  /\ memory_file = <<>>
  /\ memories = <<>>
  /\ metrics = <<>>
  /\ exc = "none"
  /\ result = NoResult
  /\ obs = [calls |-> [p \in Personas |-> 0],
            last |-> [p \in Personas |-> NoText],
            validator |-> <<>>, coding_runs |-> <<>>, refactor_runs |-> <<>>,
            coding_prompts |-> <<>>, tested |-> NoFile, untested_writes |-> 0,
            lint_runs |-> <<>>, states |-> <<>>, loaded |-> <<>>]
  /\ RouterIdle
  /\ QueryIdle
  /\ ScriptIdle
  /\ SharedLogIdle

\* InputValidator.validate_instruction(text)
ValidatorCall ==
  /\ pc = "validate_call"
  /\ validated' = ValidateInstruction(instruction)
  /\ exc' = IF validated'.status = "ok" THEN "none" ELSE validated'.status
  /\ pc' = "validate_done"
  /\ UNCHANGED <<instruction, git, target_file, routerVars, queryVars, scriptVars,
                 sharedLogVars>>
  /\ UNCHANGED <<context, i, plan, lint_results, workspace, memories,
                 memory_file, metrics, result, obs>>

ValidatorNext == ValidatorCall

SpecValidator == ValidatorInit /\ [][ValidatorNext]_vars

\* The text, lower-cased, holds the k-th deny-list entry somewhere.
DenyListedAt(text, k) ==
  \E a \in 1..Len(text) :
    /\ a + Len(PROMPT_INJECTION_PATTERNS[k]) - 1 <= Len(text)
    /\ \A j \in 1..Len(PROMPT_INJECTION_PATTERNS[k]) :
         LowerChar(text[a + j - 1]) = PROMPT_INJECTION_PATTERNS[k][j]

DenyListed(text) ==
  \E k \in 1..Len(PROMPT_INJECTION_PATTERNS) : DenyListedAt(text, k)

TooLongText(text) == Len(text) > MAX_INSTRUCTION_LENGTH

\* C15: a text longer than MAX_INSTRUCTION_LENGTH fails with ValueError,
\* never with SecurityError, whether or not it holds a deny-list entry.
C15_LengthCheckedFirst ==
  (pc = "validate_done" /\ TooLongText(instruction))
  => (validated.status = "ValueError" /\ exc = "ValueError")

C15_Witness ==
  /\ pc = "validate_done"
  /\ Len(instruction) = MAX_INSTRUCTION_LENGTH + 1
  /\ DenyListed(instruction)
  /\ validated.status = "ValueError"

\* C16: a text within the limit fails with SecurityError exactly when its
\* lower-cased form holds a deny-list entry at some position, the error
\* names the first such entry of the list, and otherwise the text is
\* returned as it was given.
C16_DenyListIffSecurityError ==
  (pc = "validate_done" /\ ~TooLongText(instruction))
  => /\ validated.status = "SecurityError" <=> DenyListed(instruction)
     /\ validated.status = "SecurityError" =>
          \E k \in 1..Len(PROMPT_INJECTION_PATTERNS) :
            /\ validated.detail = PROMPT_INJECTION_PATTERNS[k]
            /\ DenyListedAt(instruction, k)
            /\ \A j \in 1..(k - 1) : ~DenyListedAt(instruction, j)
     /\ ~DenyListed(instruction) =>
          (validated.status = "ok" /\ validated.detail = instruction)

C16_Witness ==
  /\ pc = "validate_done"
  /\ Len(instruction) = MAX_INSTRUCTION_LENGTH
  /\ validated.status = "SecurityError"
  /\ instruction # Lower(instruction)
  /\ ~DenyListedAt(instruction, 1)
  /\ instruction[1] = "a"

-----------------------------------------------------------------------------
(* HybridAIClient constructed and called on its own                        *)

MaxClients == 2
MaxGenerates == 3

RouterInit ==
  /\ RouterIdle
  /\ pc = "router"
  /\ MainIdle
  /\ QueryIdle
  /\ ScriptIdle
  /\ SharedLogIdle
  /\ context = NoContext
  /\ i = 0
  /\ plan = <<>>
  /\ lint_results = <<>>
  /\ workspace = [f \in {"repro_test.py", "solution.py"} |-> NoFile]
  /\ memory_file = <<>>
  /\ memories = <<>>
  /\ metrics = <<>>
  /\ exc = "none"
  /\ result = NoResult
  /\ obs = [calls |-> [p \in Personas |-> 0],
            last |-> [p \in Personas |-> NoText],
            validator |-> <<>>, coding_runs |-> <<>>, refactor_runs |-> <<>>,
            coding_prompts |-> <<>>, tested |-> NoFile, untested_writes |-> 0,
            lint_runs |-> <<>>, states |-> <<>>, loaded |-> <<>>]

\* HybridAIClient()
RouterConstruct ==
  /\ pc = "router"
  /\ client.constructed < MaxClients
  /\ \E probe \in ProbeOutcomes :
       /\ models' = CheckLocalAvailability(models, probe)
       /\ client' = ConstructClient(client, models, probe)
  /\ UNCHANGED <<mainVars, queryVars, scriptVars,
                 sharedLogVars>>
  /\ UNCHANGED <<context, pc, i, plan, lint_results, workspace, memories,
                 memory_file, metrics, exc, result, obs>>

\* client.generate(role, system_prompt, user_prompt), with what completion
\* would answer on the primary and on the fallback model
RouterGenerate ==
  /\ pc = "router"
  /\ client.constructed > 0
  /\ client.generates < MaxGenerates
  /\ \E role \in Roles, primary_ok \in BOOLEAN, fallback_ok \in BOOLEAN :
       LET call == Generate(role, models, primary_ok, fallback_ok)
       IN client' = [client EXCEPT !.generates = @ + 1,
                                   !.role = role,
                                   !.completions = call.completions,
                                   !.outcome = call.outcome]
  /\ UNCHANGED <<models, mainVars, queryVars, scriptVars,
                 sharedLogVars>>
  /\ UNCHANGED <<context, pc, i, plan, lint_results, workspace, memories,
                 memory_file, metrics, exc, result, obs>>

RouterNext ==
  \/ RouterConstruct
  \/ RouterGenerate

SpecRouter == RouterInit /\ [][RouterNext]_vars

\* C17 (as claimed): a generate call returns a text or raises AgentError,
\* makes at most two completion calls, and raises only after a failed primary
\* call and a failed call of the fallback model.
C17_GenerateFailsOnlyAfterFallback ==
  client.generates > 0 =>
    /\ Len(client.completions) <= 2
    /\ client.outcome \in {"returned primary", "returned fallback", "AgentError"}
    /\ client.outcome = "AgentError" =>
         /\ Len(client.completions) = 2
         /\ client.completions[2] = MODEL_FALLBACK

\* C18: a construction whose probe does not answer 200 puts the fallback
\* model in place of both local models; from then on no construction and no
\* generate call asks the endpoint again or changes the roster; no generate
\* call ever does; and the architect model is never changed.
C18_FallbackSubstitutionIsPermanent ==
  /\ [][(client'.constructed # client.constructed
          /\ client'.last_probe \in {"503", "exception"})
        => (models'.MODEL_CODER = MODEL_FALLBACK
            /\ models'.MODEL_CLERK = MODEL_FALLBACK)]_vars
  /\ [][models.MODEL_CODER = MODEL_FALLBACK
        => (models' = models /\ client'.probes = client.probes)]_vars
  /\ [][client'.generates # client.generates
        => (models' = models /\ client'.probes = client.probes)]_vars
  /\ [](models.MODEL_ARCHITECT = MODEL_ARCHITECT)

C18_Witness ==
  /\ models.MODEL_CODER = MODEL_FALLBACK
  /\ models.MODEL_CLERK = MODEL_FALLBACK
  /\ client.constructed = 2
  /\ client.probes = 1
  /\ client.generates > 0

-----------------------------------------------------------------------------
(* MemoryManager saved to and queried on its own                           *)

MaxRecords == 3
MaxTopK == 2

\* Tasks recorded: "b  a" (two spaces) and "A"; the loaded log holds "old".
RecordedTasks ==
  { <<"b", " ", " ", "a">>, <<"A">> }

\* Tasks asked about: "a B c", "a", "e".
QueriedTasks ==
  { <<"a", " ", "B", " ", "c">>, <<"a">>, <<"e">> }

MemoryInit ==
  /\ memory_file \in LoadedLogs
  /\ memories = memory_file
  /\ QueryIdle
  /\ ScriptIdle
  /\ SharedLogIdle
  /\ pc = "memory"
  /\ MainIdle
  /\ RouterIdle
  /\ context = NoContext
  /\ i = 0
  /\ plan = <<>>
  /\ lint_results = <<>>
  /\ workspace = [f \in {"repro_test.py", "solution.py"} |-> NoFile]
  /\ metrics = <<>>
  /\ exc = "none"
  /\ result = NoResult
  /\ obs = [calls |-> [p \in Personas |-> 0],
            last |-> [p \in Personas |-> NoText],
            validator |-> <<>>, coding_runs |-> <<>>, refactor_runs |-> <<>>,
            coding_prompts |-> <<>>, tested |-> NoFile, untested_writes |-> 0,
            lint_runs |-> <<>>, states |-> <<>>, loaded |-> memory_file]

\* memory.save_experience(task, success, solution)
MemorySave ==
  /\ pc \in {"memory", "saved", "found"}
  /\ Len(memories) < MaxRecords
  /\ \E task \in RecordedTasks, success \in BOOLEAN :
       memories' = SaveExperience(memories, task, success, <<"s">>)
  /\ memory_file' = memories'
  /\ pc' = "saved"
  /\ UNCHANGED <<mainVars, routerVars, queryVars, scriptVars,
                 sharedLogVars>>
  /\ UNCHANGED <<context, i, plan, lint_results, workspace, metrics, exc,
                 result, obs>>

\* memory.find_similar_experiences(task, top_k)
MemoryFind ==
  /\ pc \in {"memory", "saved", "found"}
  /\ \E task \in QueriedTasks, top_k \in 0..MaxTopK :
       retrieved' = [task |-> task, top_k |-> top_k,
                     records |-> FindSimilarExperiences(memories, task, top_k)]
  /\ pc' = "found"
  /\ UNCHANGED <<mainVars, routerVars, scriptVars,
                 sharedLogVars>>
  /\ UNCHANGED <<context, i, plan, lint_results, workspace, memories,
                 memory_file, metrics, exc, result, obs>>

MemoryNext ==
  \/ MemorySave
  \/ MemoryFind

SpecMemory == MemoryInit /\ [][MemoryNext]_vars

\* The lower-cased words two task texts share.
Overlap(task, other) ==
  Cardinality({ w \in Words(Lower(task)) : w \in Words(Lower(other)) })

\* The places of the log that share a word with the task.
Overlapping(task) ==
  { j \in 1..Len(memories) : Overlap(task, memories[j].task) > 0 }

\* Place j comes before place k: a higher overlap, or the same and earlier.
RankedBefore(task, j, k) ==
  \/ Overlap(task, memories[j].task) > Overlap(task, memories[k].task)
  \/ /\ Overlap(task, memories[j].task) = Overlap(task, memories[k].task)
     /\ j < k

\* The place of the log that holds rank n.
PlaceOfRank(task, n) ==
  CHOOSE j \in Overlapping(task) :
    Cardinality({ k \in Overlapping(task) : RankedBefore(task, k, j) }) = n - 1

\* C19: find_similar_experiences(task, k) returns at most k records, none
\* without a shared lower-cased word, and exactly the first k of the records
\* with a shared word ordered by falling overlap, equal overlaps in the order
\* of the log.
C19_FindReturnsFirstKRanked ==
  pc = "found" =>
    LET found == retrieved.records
        wanted == IF Cardinality(Overlapping(retrieved.task)) < retrieved.top_k
                  THEN Cardinality(Overlapping(retrieved.task))
                  ELSE retrieved.top_k
    IN /\ Len(found) <= retrieved.top_k
       /\ \A n \in 1..Len(found) : Overlap(retrieved.task, found[n].task) > 0
       /\ \A n \in 1..(Len(found) - 1) :
            Overlap(retrieved.task, found[n].task)
              >= Overlap(retrieved.task, found[n + 1].task)
       /\ Len(found) = wanted
       /\ \A n \in 1..Len(found) :
            found[n] = memories[PlaceOfRank(retrieved.task, n)]

\* Three records share a word with the task, the first of the log shares
\* the fewest, the other two tie and differ, and two are asked for.
C19_Witness ==
  /\ pc = "found"
  /\ retrieved.top_k = 2
  /\ Cardinality(Overlapping(retrieved.task)) = 3
  /\ Len(retrieved.records) = 2
  /\ retrieved.records[1] # retrieved.records[2]
  /\ Overlap(retrieved.task, retrieved.records[1].task)
       = Overlap(retrieved.task, retrieved.records[2].task)
  /\ Overlap(retrieved.task, memories[1].task)
       < Overlap(retrieved.task, retrieved.records[1].task)

\* C20: a save_experience call appends one record behind the records
\* already held, which keep their places, and writes the whole list to the
\* file; a find_similar_experiences call changes neither list nor file.
C20_StoreIsAppendOnly ==
  /\ [][pc' = "saved" =>
          /\ Len(memories') = Len(memories) + 1
          /\ SubSeq(memories', 1, Len(memories)) = memories
          /\ memory_file' = memories']_vars
  /\ [][pc' = "found" =>
          /\ memories' = memories
          /\ memory_file' = memory_file]_vars
  /\ [](memory_file = memories)

C20_Witness ==
  /\ pc = "found"
  /\ Len(memories) = Len(obs.loaded) + 2
  /\ retrieved.records # <<>>
  /\ obs.loaded # <<>>

-----------------------------------------------------------------------------
(* Claims about whole runs of execute_workflow                             *)

\* the lint run found the tool and the tool reported nothing
ReportsNothing(run) == ~run.missing /\ ~ReportsIssues(run)

\* C21: with MAX_RETRIES = 3, when the plan is approved at once, the first
\* test run of CODING exits non-zero, the second exits 0 and the linter
\* reports nothing, execute_workflow returns after 1 Architect, 1 Validator,
\* 1 QA, 1 Coder, then 1 Debugger and 1 Auditor call and 2 test runs, in
\* state DONE, with one experience added: success, and the Debugger's code.
C21_PassOnSecondCodingAttempt ==
  ( /\ pc = "returned"
    /\ MAX_RETRIES = 3
    /\ Len(obs.validator) = 1
    /\ obs.validator[1] \in Approving
    /\ Len(obs.coding_runs) >= 2
    /\ ExitedNonZero(obs.coding_runs[1])
    /\ Passed(obs.coding_runs[2])
    /\ Len(obs.lint_runs) >= 1
    /\ ReportsNothing(obs.lint_runs[1]) )
  => /\ obs.calls = [p \in Personas |->
                       IF p = "REFACTOR_AGENT" THEN 0 ELSE 1]
     /\ Len(obs.coding_runs) = 2
     /\ obs.refactor_runs = <<>>
     /\ Len(obs.lint_runs) = 1
     /\ context.current_state = "DONE"
     /\ result = TRUE
     /\ memories = Append(obs.loaded,
          [task |-> Task, success |-> TRUE, solution |-> obs.last["DEBUGGER"]])
     /\ memory_file = memories
     /\ workspace["solution.py"] = Unfenced(obs.last["DEBUGGER"])

\* The Coder and the Debugger wrote different programs.
C21_Witness ==
  /\ pc = "returned"
  /\ Len(obs.validator) = 1
  /\ Len(obs.coding_runs) = 2
  /\ Passed(obs.coding_runs[2])
  /\ ReportsNothing(obs.lint_runs[1])
  /\ obs.last["CODER"] # obs.last["DEBUGGER"]
  /\ result = TRUE

\* C22: when coding passes on the first attempt, j rewrites were made
\* (1 <= j < MAX_RETRIES), each after a lint run that reported issues and each
\* followed by a test re-run that exited 0, and no lint run after them
\* reported issues, then execute_workflow returns in DONE after exactly j
\* Refactor calls, j re-runs and j + 1 lint runs, the last one clean, and
\* context.solution_code is the j-th rewrite.
C22_RefactorUntilClean ==
  \A j \in 1..(MAX_RETRIES - 1) :
    ( /\ pc = "returned"
      /\ obs.validator # <<>>
      /\ Last(obs.validator) \in Approving
      /\ Len(obs.coding_runs) = 1
      /\ Passed(obs.coding_runs[1])
      /\ Len(obs.refactor_runs) = j
      /\ \A k \in 1..j : Passed(obs.refactor_runs[k])
      /\ \A k \in 1..Len(obs.lint_runs) :
           k <= j <=> ReportsIssues(obs.lint_runs[k]) )
    => /\ obs.calls["REFACTOR_AGENT"] = j
       /\ Len(obs.lint_runs) = j + 1
       /\ ReportsNothing(obs.lint_runs[j + 1])
       /\ context.current_state = "DONE"
       /\ result = TRUE
       /\ context.solution_code = obs.last["REFACTOR_AGENT"]
       /\ obs.calls["AUDITOR"] = 1
       /\ Len(obs.validator) = 1 =>
            /\ obs.calls["ARCHITECT"] + obs.calls["VALIDATOR"]
                 + obs.calls["QA_ENGINEER"] + CoderClassCalls
                 + obs.calls["REFACTOR_AGENT"] + obs.calls["AUDITOR"] = 5 + j
            /\ Len(obs.coding_runs) + Len(obs.lint_runs)
                 + Len(obs.refactor_runs) = 2 + 2 * j

\* One rewrite: six model calls, four subprocess runs.
C22_Witness ==
  /\ pc = "returned"
  /\ Len(obs.validator) = 1
  /\ Len(obs.coding_runs) = 1
  /\ Len(obs.refactor_runs) = 1
  /\ Len(obs.lint_runs) = 2
  /\ ReportsIssues(obs.lint_runs[1])
  /\ ReportsNothing(obs.lint_runs[2])
  /\ context.current_state = "DONE"
  /\ obs.last["REFACTOR_AGENT"] # obs.last["CODER"]

\* The changes of current_state the workflow allows.
AllowedTransitions ==
  { <<"PLANNING", "GENERATE_TESTS">>, <<"PLANNING", "FAILED">>,
    <<"GENERATE_TESTS", "CODING">>, <<"CODING", "REFACTORING">>,
    <<"CODING", "FAILED">>, <<"REFACTORING", "AUDIT">>,
    <<"REFACTORING", "FAILED">>, <<"AUDIT", "DONE">> }

\* C23: current_state is always one of the seven states, is PLANNING at the
\* start, changes only along the allowed transitions, never changes once it
\* is DONE or FAILED, and no state is entered twice.
C23_StateMachine ==
  /\ [](context.current_state \in
          {"PLANNING", "GENERATE_TESTS", "CODING", "REFACTORING", "AUDIT",
           "DONE", "FAILED"})
  /\ (context.current_state = "PLANNING")
  /\ [][context'.current_state # context.current_state =>
          <<context.current_state, context'.current_state>>
            \in AllowedTransitions]_vars
  /\ [][context.current_state \in {"DONE", "FAILED"} =>
          context'.current_state = context.current_state]_vars
  /\ [](\A a, b \in 1..Len(obs.states) :
          obs.states[a] = obs.states[b] => a = b)

C23_Witness ==
  /\ pc = "returned"
  /\ obs.states = <<"PLANNING", "GENERATE_TESTS", "CODING", "REFACTORING",
                    "AUDIT", "DONE">>

\* C24 (as claimed): on entry to GENERATE_TESTS the critique is empty.
C24_CritiqueClearedOnApproval ==
  context.current_state = "GENERATE_TESTS" => context.critique = <<>>

\* C25 (as claimed): once the plan is approved a file of the workspace holds
\* the plan, and once the audit is done a file holds the critique.
C25_PlanAndCritiqueFilesWritten ==
  /\ "GENERATE_TESTS" \in Range(obs.states) =>
       \E f \in DOMAIN workspace : workspace[f] = context.plan
  /\ context.current_state = "DONE" =>
       \E f \in DOMAIN workspace : workspace[f] = context.critique

\* C27: every model call, answered or failed, adds exactly one sample, with
\* the persona's role and the state at the time of the call; nothing else
\* adds one or changes one.
C27_OneSamplePerTurn ==
  /\ [][\A p \in Personas :
          obs'.calls[p] # obs.calls[p] =>
            metrics' = Append(metrics,
                         [agent |-> Role(p), phase |-> context.current_state])]_vars
  /\ [][obs'.calls = obs.calls => metrics' = metrics]_vars
  /\ [](Len(metrics) =
          obs.calls["ARCHITECT"] + obs.calls["VALIDATOR"]
            + obs.calls["QA_ENGINEER"] + CoderClassCalls
            + obs.calls["REFACTOR_AGENT"] + obs.calls["AUDITOR"])

\* A failed Debugger call left its sample.
C27_Witness ==
  /\ pc = "raised"
  /\ exc = "AgentError"
  /\ metrics # <<>>
  /\ Last(metrics) = [agent |-> "Debugger", phase |-> "CODING"]
  /\ Len(metrics) = 5

-----------------------------------------------------------------------------
(* _write_to_workspace called on its own, main_hybrid.py:501-504           *)

MaxChunks == 4

\* What a generated text is put together from: one backtick, two
\* backticks, the word python, a letter, a line break.
Chunks ==
  { <<Backtick>>, <<Backtick, Backtick>>, <<"p", "y", "t", "h", "o", "n">>,
    <<"x">>, <<"\n">> }

RECURSIVE Flatten(_)
Flatten(chunks) ==
  IF chunks = <<>> THEN <<>> ELSE Head(chunks) \o Flatten(Tail(chunks))

\* The texts of up to MaxChunks chunks.
GeneratedTexts ==
  { Flatten(cs) : cs \in UNION { [1..n -> Chunks] : n \in 0..MaxChunks } }

WriteInit ==
  /\ \/ /\ pc = "write_test"
        /\ \E text \in GeneratedTexts :
             context = [NewContext(Task, <<>>) EXCEPT !.test_code = text,
                                                   !.current_state = "GENERATE_TESTS"]
     \/ /\ pc = "write_solution"
        /\ \E text \in GeneratedTexts :
             context = [NewContext(Task, <<>>) EXCEPT !.solution_code = text,
                                                   !.current_state = "CODING"]
  /\ i = 0
  /\ plan = <<>>
  /\ lint_results = <<>>
  /\ workspace = [f \in {"repro_test.py", "solution.py"} |-> NoFile]
  /\ memory_file = <<>>
  /\ memories = <<>>
  /\ metrics = <<>>
  /\ exc = "none"
  /\ result = NoResult
  /\ obs = [calls |-> [p \in Personas |-> 0],
            last |-> [p \in Personas |-> NoText],
            validator |-> <<>>, coding_runs |-> <<>>, refactor_runs |-> <<>>,
            coding_prompts |-> <<>>, tested |-> NoFile, untested_writes |-> 0,
            lint_runs |-> <<>>, states |-> <<>>, loaded |-> <<>>]
  /\ MainIdle
  /\ RouterIdle
  /\ QueryIdle
  /\ ScriptIdle
  /\ SharedLogIdle

\* self._write_to_workspace("repro_test.py", self.context.test_code)
WriteTestHarness ==
  /\ pc = "write_test"
  /\ workspace' = WriteToWorkspace(workspace, "repro_test.py", context.test_code)
  /\ pc' = "written"
  /\ UNCHANGED <<context, i, plan, lint_results, memories, memory_file,
                 metrics, exc, result, obs>>
  /\ UNCHANGED outside

\* self._write_to_workspace("solution.py", solution)
WriteSolution ==
  /\ pc = "write_solution"
  /\ workspace' = WriteToWorkspace(workspace, "solution.py", context.solution_code)
  /\ pc' = "written"
  /\ UNCHANGED <<context, i, plan, lint_results, memories, memory_file,
                 metrics, exc, result, obs>>
  /\ UNCHANGED outside

WriteNext ==
  \/ WriteTestHarness
  \/ WriteSolution

SpecWrite == WriteInit /\ [][WriteNext]_vars

\* three backticks in a row somewhere in the text
HasFence(text) ==
  \E k \in 1..(Len(text) - 2) :
    text[k] = Backtick /\ text[k + 1] = Backtick /\ text[k + 2] = Backtick

\* C26: no file _write_to_workspace has written holds a code-fence marker,
\* whatever the generated text was, and the file never starts or ends with
\* whitespace.
C26_WrittenFilesAreUnfenced ==
  \A f \in DOMAIN workspace :
    workspace[f] # NoFile =>
      /\ ~HasFence(workspace[f])
      /\ workspace[f] # <<>> =>
           (~IsSpace(workspace[f][1]) /\ ~IsSpace(Last(workspace[f])))

\* A python fence behind one backtick and before another has been written:
\* the two backticks left over are no marker.
C26_Witness ==
  /\ pc = "written"
  /\ context.solution_code = <<Backtick>> \o FencePython \o <<Backtick>>
  /\ workspace["solution.py"] = <<Backtick, Backtick>>

-----------------------------------------------------------------------------
(* The stand-alone scripts: flow_engineer.py, autonomous_agent.py,         *)
(* agent_architect.py                                                      *)

\* MAX_RETRIES of flow_engineer.py and of autonomous_agent.py
FLOW_MAX_RETRIES == 3
AGENT_MAX_RETRIES == 3

Programs == {"flow_engineer", "autonomous_agent", "agent_architect"}

ReflexionPrograms == {"flow_engineer", "autonomous_agent"}

MaxRetriesOf(program) ==
  IF program = "flow_engineer" THEN FLOW_MAX_RETRIES ELSE AGENT_MAX_RETRIES

\* The local variables of the three entry points that hold generated text.
ScriptLocals ==
  {"plan", "test_code", "solution_code", "new_code", "code", "critique"}

ScriptFiles(program) ==
  CASE program = "flow_engineer" -> {"test_suite.py", "solution.py"}
    [] program = "autonomous_agent" ->
         {"plan.yaml", "solution.py", "test_suite.py"}
    [] OTHER ->
         {"1_plan.yaml", "2_test_harness.py", "3_solution.py",
          "4_critique.txt"}

\* What AIClient.generate may return for the variable a call is assigned to;
\* generate catches every exception and returns a string.
ScriptAnswers(name) ==
  CASE name = "plan" -> Plans
    [] name = "test_code" -> TestHarnesses
    [] name = "critique" -> Reviews
    [] OTHER -> Codes

CleanKeepsFences(text) == Strip(text)

\* _clean / _clean_code
Clean(text) == Strip(Remove(Remove(text, FencePython), Fence))

Call(name, cleaned) ==
  [op |-> "generate", name |-> name, file |-> "", clean |-> cleaned]

Save(file, name, cleaned) ==
  [op |-> "write", name |-> name, file |-> file, clean |-> cleaned]

\* agent_architect with each artifact saved one call late
StraightLineSavesLate(program) ==
  CASE program = "flow_engineer" ->
         << Call("plan", FALSE),
            Call("test_code", FALSE),
            Save("test_suite.py", "test_code", TRUE),
            Call("solution_code", FALSE),
            Save("solution.py", "solution_code", TRUE) >>
    [] program = "autonomous_agent" ->
         << Call("plan", FALSE),
            Save("plan.yaml", "plan", FALSE),
            Call("solution_code", FALSE),
            Save("solution.py", "solution_code", TRUE),
            Call("test_code", FALSE),
            Save("test_suite.py", "test_code", TRUE) >>
    [] OTHER ->
         << Call("plan", FALSE),
            Call("test_code", TRUE),
            Save("1_plan.yaml", "plan", FALSE),
            Call("code", TRUE),
            Save("2_test_harness.py", "test_code", FALSE),
            Call("critique", FALSE),
            Save("3_solution.py", "code", FALSE),
            Save("4_critique.txt", "critique", FALSE) >>

\* The statements each entry point executes before any loop, in order: a
\* model call assigned to a local variable (cleaned where the step function
\* returns _clean_code of the answer), or a file written from a local
\* variable (cleaned where the call site wraps it in _clean).
StraightLine(program) ==
  CASE program = "flow_engineer" ->
         << Call("plan", FALSE),
            Call("test_code", FALSE),
            Save("test_suite.py", "test_code", TRUE),
            Call("solution_code", FALSE),
            Save("solution.py", "solution_code", TRUE) >>
    [] program = "autonomous_agent" ->
         << Call("plan", FALSE),
            Save("plan.yaml", "plan", FALSE),
            Call("solution_code", FALSE),
            Save("solution.py", "solution_code", TRUE),
            Call("test_code", FALSE),
            Save("test_suite.py", "test_code", TRUE) >>
    [] OTHER ->
         << Call("plan", FALSE),
            Save("1_plan.yaml", "plan", FALSE),
            Call("test_code", TRUE),
            Save("2_test_harness.py", "test_code", FALSE),
            Call("code", TRUE),
            Save("3_solution.py", "code", FALSE),
            Call("critique", FALSE),
            Save("4_critique.txt", "critique", FALSE) >>

\* What one subprocess.run of test_suite.py may do.
RunOutcomes == {"passed", "failed", "timeout", "system error"}

RunTestsTimeoutPasses(outcome) ==
  [success |-> outcome \in {"passed", "timeout"}]

\* run_tests: the dictionary returned; TimeoutExpired and every other
\* exception are caught and reported as a failed run.
RunTests(outcome) == [success |-> outcome = "passed"]

LoopContinuesOneMore(program, attempt) == attempt <= MaxRetriesOf(program)

\* while attempt < MAX_RETRIES
LoopContinues(program, attempt) == attempt < MaxRetriesOf(program)

StartScript(program) ==
  [program |-> program,
   step |-> 1,
   attempt |-> 0,
   locals |-> [n \in ScriptLocals |-> NoText],
   files |-> [f \in ScriptFiles(program) |-> NoFile],
   result |-> [success |-> FALSE],
   events |-> <<>>,
   returned |-> "no"]

Generated(name, text) == [op |-> "generate", name |-> name, text |-> text]

Wrote(file, text) == [op |-> "write", name |-> file, text |-> text]

Ran(outcome) == [op |-> "run", name |-> outcome, text |-> <<>>]

\* Where control goes after statement k of the straight-line part.
AfterStatement(program, k) ==
  IF k < Len(StraightLine(program)) THEN "statement"
  ELSE IF program \in ReflexionPrograms THEN "while" ELSE "returned"

workflowVars ==
  <<context, i, plan, lint_results, workspace, memories, memory_file, metrics,
    exc, result, obs>>

ScriptInit ==
  /\ \E program \in Programs : script = StartScript(program)
  /\ pc = "statement"
  /\ context = NoContext
  /\ i = 0
  /\ plan = <<>>
  /\ lint_results = <<>>
  /\ workspace = [f \in {"repro_test.py", "solution.py"} |-> NoFile]
  /\ memories = <<>>
  /\ memory_file = <<>>
  /\ metrics = <<>>
  /\ exc = "none"
  /\ result = NoResult
  /\ obs = [calls |-> [p \in Personas |-> 0],
            last |-> [p \in Personas |-> NoText],
            validator |-> <<>>, coding_runs |-> <<>>, refactor_runs |-> <<>>,
            coding_prompts |-> <<>>, tested |-> NoFile, untested_writes |-> 0,
            lint_runs |-> <<>>, states |-> <<>>, loaded |-> <<>>]
  /\ MainIdle
  /\ RouterIdle
  /\ QueryIdle
  /\ SharedLogIdle

\* x = self.call_llm(...) / self.ai.generate(...) / self._step_x(...)
ScriptGenerate ==
  /\ pc = "statement"
  /\ script.program \in Programs
  /\ LET s == StraightLine(script.program)[script.step] IN
       /\ s.op = "generate"
       /\ \E text \in ScriptAnswers(s.name) :
            script' =
              [script EXCEPT
                 !.locals[s.name] = IF s.clean THEN Clean(text) ELSE text,
                 !.events = Append(@, Generated(s.name, text)),
                 !.step = @ + 1,
                 !.returned =
                   IF AfterStatement(script.program, script.step) = "returned"
                   THEN "done" ELSE @]
  /\ pc' = AfterStatement(script.program, script.step)
  /\ UNCHANGED <<workflowVars, mainVars, routerVars, queryVars, sharedLogVars>>

\* self.write_to_workspace(file, ...) / self._save_artifact(file, ...)
ScriptWrite ==
  /\ pc = "statement"
  /\ script.program \in Programs
  /\ LET s == StraightLine(script.program)[script.step]
         content == IF s.clean THEN Clean(script.locals[s.name])
                    ELSE script.locals[s.name]
     IN
       /\ s.op = "write"
       /\ script' =
            [script EXCEPT
               !.files[s.file] = content,
               !.events = Append(@, Wrote(s.file, content)),
               !.step = @ + 1,
               !.returned =
                 IF AfterStatement(script.program, script.step) = "returned"
                 THEN "done" ELSE @]
  /\ pc' = AfterStatement(script.program, script.step)
  /\ UNCHANGED <<workflowVars, mainVars, routerVars, queryVars, sharedLogVars>>

\* the loop test holds: result = self.run_tests("test_suite.py")
ScriptRunTests ==
  /\ pc = "while"
  /\ LoopContinues(script.program, script.attempt)
  /\ \E outcome \in RunOutcomes :
       script' = [script EXCEPT !.result = RunTests(outcome),
                                !.events = Append(@, Ran(outcome))]
  /\ pc' = "after_run"
  /\ UNCHANGED <<workflowVars, mainVars, routerVars, queryVars, sharedLogVars>>

\* the loop test fails: print "MAX RETRIES REACHED" and fall off the end
ScriptGiveUp ==
  /\ pc = "while"
  /\ ~LoopContinues(script.program, script.attempt)
  /\ script' = [script EXCEPT !.returned = "max retries"]
  /\ pc' = "returned"
  /\ UNCHANGED <<workflowVars, mainVars, routerVars, queryVars, sharedLogVars>>

\* if result["success"]: return
ScriptSucceed ==
  /\ pc = "after_run"
  /\ script.result.success
  /\ script' = [script EXCEPT !.returned = "verified"]
  /\ pc' = "returned"
  /\ UNCHANGED <<workflowVars, mainVars, routerVars, queryVars, sharedLogVars>>

\* the failed branch: new_code = (Senior Debugger rewrite)
ScriptReflect ==
  /\ pc = "after_run"
  /\ ~script.result.success
  /\ \E text \in ScriptAnswers("new_code") :
       script' = [script EXCEPT !.locals["new_code"] = text,
                                !.events = Append(@, Generated("new_code", text))]
  /\ pc' = "rewrite"
  /\ UNCHANGED <<workflowVars, mainVars, routerVars, queryVars, sharedLogVars>>

ScriptRewriteSkipsWrite ==
  /\ pc = "rewrite"
  /\ script' = [script EXCEPT !.attempt = @ + 1]
  /\ pc' = "while"
  /\ UNCHANGED <<workflowVars, mainVars, routerVars, queryVars, sharedLogVars>>

\* self.write_to_workspace("solution.py", self._clean(new_code)); attempt += 1
ScriptRewrite ==
  /\ pc = "rewrite"
  /\ LET content == Clean(script.locals["new_code"]) IN
       script' = [script EXCEPT
                    !.files["solution.py"] = content,
                    !.events = Append(@, Wrote("solution.py", content)),
                    !.attempt = @ + 1]
  /\ pc' = "while"
  /\ UNCHANGED <<workflowVars, mainVars, routerVars, queryVars, sharedLogVars>>

ScriptNext ==
  \/ ScriptGenerate
  \/ ScriptWrite
  \/ ScriptRunTests
  \/ ScriptGiveUp
  \/ ScriptSucceed
  \/ ScriptReflect
  \/ ScriptRewrite

SpecScripts == ScriptInit /\ [][ScriptNext]_vars

-----------------------------------------------------------------------------
(* Claims about the stand-alone scripts                                    *)

IsRun(e) == e.op = "run"

IsGeneration(e) == e.op = "generate"

IsSolutionGeneration(e) ==
  e.op = "generate" /\ e.name \in {"solution_code", "new_code"}

ScriptRuns == SelectSeq(script.events, IsRun)

ScriptGenerations == SelectSeq(script.events, IsGeneration)

SolutionGenerations == SelectSeq(script.events, IsSolutionGeneration)

\* the index of the first run that passed, 0 when none has
FirstPass ==
  IF \E k \in 1..Len(ScriptRuns) : ScriptRuns[k].name = "passed"
  THEN CHOOSE k \in 1..Len(ScriptRuns) :
         /\ ScriptRuns[k].name = "passed"
         /\ \A j \in 1..(k - 1) : ScriptRuns[j].name # "passed"
  ELSE 0

\* a generated text without its code fence and surrounding whitespace
Bare(text) ==
  CASE text \in Codes -> Unfenced(text)
    [] text \in TestHarnesses -> <<"t">>
    [] OTHER -> text

\* the loop has stopped after its i-th run, with 3 + (i - 1) generations made
StoppedAfterFirstPass ==
  /\ FirstPass <= MaxRetriesOf(script.program)
  /\ Len(ScriptRuns) = FirstPass
  /\ Len(ScriptGenerations) = 3 + (FirstPass - 1)
  /\ pc \in {"after_run", "returned"}
  /\ pc = "returned" => script.returned = "verified"

\* C28 as stated: once run_tests has first succeeded on its i-th call, there
\* are exactly i runs and 3 + (i - 1) generations, the loop has stopped, and
\* solution.py holds the fence-stripped output of the last generation made.
C28_SolutionIsLastGeneration ==
  (script.program \in ReflexionPrograms /\ FirstPass > 0) =>
    /\ StoppedAfterFirstPass
    /\ script.files["solution.py"] = Bare(Last(ScriptGenerations).text)

\* C28, amended: once run_tests has first succeeded on its i-th call, there
\* are exactly i runs and 3 + (i - 1) generations, the loop has stopped, and
\* solution.py holds the fence-stripped output of the last generation of the
\* solution: the first draft when i = 1, otherwise rewrite i - 1.
C28_SolutionIsLastSolutionGeneration ==
  (script.program \in ReflexionPrograms /\ FirstPass > 0) =>
    /\ StoppedAfterFirstPass
    /\ Len(SolutionGenerations) = FirstPass
    /\ script.files["solution.py"] = Bare(Last(SolutionGenerations).text)

\* execute_task has returned after its second run passed, and the rewrite
\* replaced the first draft in solution.py.
C28_Witness ==
  /\ script.program = "autonomous_agent"
  /\ pc = "returned"
  /\ FirstPass = 2
  /\ SolutionGenerations[1].text = CodePythonFenced
  /\ script.files["solution.py"] = ProgramB

\* C29: while no verification run passes, each run_tests call, a timeout or
\* a system error included, uses up one attempt and is answered by one
\* rewrite; there are never more than MAX_RETRIES runs, and the program
\* returns normally after exactly MAX_RETRIES of them.
C29_StopsAfterMaxRetriesFailedRuns ==
  (script.program \in ReflexionPrograms /\ FirstPass = 0) =>
    /\ Len(ScriptRuns) <= MaxRetriesOf(script.program)
    /\ pc = "after_run" => ~script.result.success
    /\ pc = "while" =>
         /\ script.attempt = Len(ScriptRuns)
         /\ Len(SolutionGenerations) = 1 + Len(ScriptRuns)
    /\ pc = "returned" =>
         /\ script.returned = "max retries"
         /\ Len(ScriptRuns) = MaxRetriesOf(script.program)
         /\ Len(ScriptGenerations) = 3 + MaxRetriesOf(script.program)

\* execute_task has returned after a failed run, a timeout and a system
\* error.
C29_Witness ==
  /\ script.program = "autonomous_agent"
  /\ pc = "returned"
  /\ script.returned = "max retries"
  /\ Len(ScriptRuns) = 3
  /\ ScriptRuns[1].name = "failed"
  /\ ScriptRuns[2].name = "timeout"
  /\ ScriptRuns[3].name = "system error"

\* the calls and artifacts of agent_architect's execute_task, in order
ArchitectOrder ==
  << <<"generate", "plan">>, <<"write", "1_plan.yaml">>,
     <<"generate", "test_code">>, <<"write", "2_test_harness.py">>,
     <<"generate", "code">>, <<"write", "3_solution.py">>,
     <<"generate", "critique">>, <<"write", "4_critique.txt">> >>

\* C30: what agent_architect's execute_task has done so far is always a
\* prefix of: call for the plan, save 1_plan.yaml, call for the test, save
\* 2_test_harness.py, call for the code, save 3_solution.py, call for the
\* critique, save 4_critique.txt; each artifact holds the answer of the call
\* just before it (without its code fence), no test is ever run, and the
\* method returns only after all eight steps.
C30_FourCallsEachSavedBeforeTheNext ==
  script.program = "agent_architect" =>
    /\ Len(script.events) <= Len(ArchitectOrder)
    /\ \A k \in 1..Len(script.events) :
         /\ script.events[k].op = ArchitectOrder[k][1]
         /\ script.events[k].name = ArchitectOrder[k][2]
         /\ script.events[k].op = "write" =>
              /\ script.events[k].text = Bare(script.events[k - 1].text)
              /\ script.files[script.events[k].name] = script.events[k].text
    /\ pc = "returned" <=> Len(script.events) = Len(ArchitectOrder)
    /\ pc \in {"statement", "returned"}

\* execute_task has returned with its four artifacts written.
C30_Witness ==
  /\ script.program = "agent_architect"
  /\ pc = "returned"
  /\ Len(ScriptGenerations) = 4
  /\ \A f \in DOMAIN script.files : script.files[f] # NoFile
  /\ script.files["3_solution.py"] = ProgramA

-----------------------------------------------------------------------------
(* Further claims about execute_workflow                                   *)

\* C31: the loop counter of each phase counts the attempts of that phase
\* only: at the head of a planning attempt it equals the Architect calls
\* made, at the head of a coding attempt the Coder and Debugger calls made,
\* at the head of a refactor attempt the lint checks made.  A run approved
\* on its last planning attempt therefore fails CODING only after
\* MAX_RETRIES test runs, and leaves REFACTORING by exhaustion only after
\* MAX_RETRIES lint checks.
C31_PhasesCountIndependently ==
  /\ pc = "plan_architect" => i = obs.calls["ARCHITECT"]
  /\ pc = "code_generate" => i = CoderClassCalls
  /\ pc = "refactor_lint" => i = Len(obs.lint_runs)
  /\ obs.calls["ARCHITECT"] = MAX_RETRIES =>
       /\ Follows("CODING", "FAILED") => Len(obs.coding_runs) = MAX_RETRIES
       /\ (Follows("REFACTORING", "AUDIT") /\ ReportsIssues(Last(obs.lint_runs)))
            => Len(obs.lint_runs) = MAX_RETRIES

\* A run approved on the last planning attempt that also used every coding
\* attempt and every refactor attempt, and is done.
C31_Witness ==
  /\ pc = "returned"
  /\ context.current_state = "DONE"
  /\ obs.calls["ARCHITECT"] = MAX_RETRIES
  /\ CoderClassCalls = MAX_RETRIES
  /\ obs.calls["REFACTOR_AGENT"] = MAX_RETRIES

\* stderr followed by stdout of a completed run
ErrorOutput(res) == res.stderr \o res.stdout

\* the prompt quotes the plan and the harness and no error log
QuotesPlanAndHarness(prompt) ==
  /\ prompt.plan = context.plan
  /\ prompt.test_code = context.test_code
  /\ prompt.error_log = NoText

\* the prompt quotes the harness and the error output of run k, not the plan
QuotesHarnessAndErrorsOf(prompt, k) ==
  /\ prompt.plan = NoText
  /\ prompt.test_code = context.test_code
  /\ prompt.error_log = ErrorOutput(obs.coding_runs[k])

\* C32: the first coding attempt goes to the Coder with the plan and the
\* test harness; attempt k >= 2 goes to the Debugger with the harness and
\* stderr followed by stdout of verification run k - 1, without the plan.
\* This holds of every prompt answered and of the one about to be sent.  A
\* run makes no Coder call before CODING and exactly one from its first
\* coding attempt on.
C32_CoderFirstThenDebugger ==
  /\ \A k \in 1..Len(obs.coding_prompts) :
       IF k = 1
       THEN /\ obs.coding_prompts[k].agent = "CODER"
            /\ QuotesPlanAndHarness(obs.coding_prompts[k])
       ELSE /\ obs.coding_prompts[k].agent = "DEBUGGER"
            /\ QuotesHarnessAndErrorsOf(obs.coding_prompts[k], k - 1)
  /\ pc = "code_generate" =>
       IF i = 0
       THEN /\ CodePrompt(context, i).agent = "CODER"
            /\ QuotesPlanAndHarness(CodePrompt(context, i))
       ELSE /\ CodePrompt(context, i).agent = "DEBUGGER"
            /\ QuotesHarnessAndErrorsOf(CodePrompt(context, i), i)
  /\ obs.calls["CODER"] =
       (IF "CODING" \in Range(obs.states) /\ (pc = "code_generate" => i > 0)
           /\ ~(pc = "dispatch" /\ context.current_state = "CODING")
        THEN 1 ELSE 0)

\* The third coding attempt has been answered: one Coder call, two Debugger
\* calls, the last one prompted with the error output of the second run.
C32_Witness ==
  /\ Len(obs.coding_prompts) = MAX_RETRIES
  /\ obs.coding_prompts[MAX_RETRIES].error_log = <<"E", "F">>
  /\ obs.coding_prompts[1].plan \in Plans
  /\ obs.calls["CODER"] = 1
  /\ obs.calls["DEBUGGER"] = MAX_RETRIES - 1

-----------------------------------------------------------------------------
(* execute_workflow with QA and Auditor answers of any kind                *)

\* Answers that are no harness and no review: nothing at all, the approval
\* token, the name of the failure state, besides a fenced harness.
OutputsOfAnyKind ==
  TestHarnesses \cup { <<>>, ApprovalToken, <<"F", "A", "I", "L", "E", "D">> }

GenerateTestsAnyOutput ==
  /\ pc = "generate_tests"
  /\ GenerateTestsFrom(OutputsOfAnyKind)

AuditAnyOutput ==
  /\ pc = "audit"
  /\ AuditFrom(OutputsOfAnyKind)

NextAnyOutput ==
  \/ Dispatch
  \/ PlanningArchitect
  \/ PlanningValidator
  \/ GenerateTestsAnyOutput
  \/ CodingGenerate
  \/ CodingVerify
  \/ RefactorLint
  \/ RefactorGenerate
  \/ RefactorVerify
  \/ AuditAnyOutput
  \/ Finish

SpecAnyOutput == Init /\ [][NextAnyOutput]_vars

\* C33: the QA call is answered exactly when the run moves from
\* GENERATE_TESTS to CODING, whatever the answer; it is the only QA call, its
\* text is the stored harness and (cleaned) the file repro_test.py.  The
\* Auditor call is answered exactly when the run moves from AUDIT to DONE,
\* whatever the answer; it is the only Auditor call and its text is the
\* stored critique.  A run that has entered GENERATE_TESTS or AUDIT and
\* returned has made exactly one such call.
C33_SingleUnconditionalCalls ==
  /\ obs.calls["QA_ENGINEER"] <= 1
  /\ obs.calls["AUDITOR"] <= 1
  /\ obs.last["QA_ENGINEER"] # NoText <=> Follows("GENERATE_TESTS", "CODING")
  /\ obs.last["QA_ENGINEER"] # NoText =>
       /\ context.test_code = obs.last["QA_ENGINEER"]
       /\ workspace["repro_test.py"] = CleanContent(obs.last["QA_ENGINEER"])
  /\ obs.last["AUDITOR"] # NoText <=> Follows("AUDIT", "DONE")
  /\ obs.last["AUDITOR"] # NoText => context.critique = obs.last["AUDITOR"]
  /\ pc \in {"returned", "raised"} =>
       /\ "GENERATE_TESTS" \in Range(obs.states) => obs.calls["QA_ENGINEER"] = 1
       /\ "AUDIT" \in Range(obs.states) => obs.calls["AUDITOR"] = 1

\* A run is done although the QA engineer answered nothing at all and the
\* Auditor answered FAILED.
C33_Witness ==
  /\ pc = "returned"
  /\ result = TRUE
  /\ context.test_code = <<>>
  /\ context.critique = <<"F", "A", "I", "L", "E", "D">>
  /\ obs.calls["QA_ENGINEER"] = 1
  /\ obs.calls["AUDITOR"] = 1

-----------------------------------------------------------------------------
(* Further claims about execute_workflow, continued                        *)

\* the fields SharedContext.__init__ receives as arguments
ConstructorFields(ctx) ==
  <<ctx.task, ctx.target_file, ctx.repo_map, ctx.similar_experiences>>

\* C34: no step changes the task, the target, the repository map or the
\* retrieved experiences of the context; no step taken outside PLANNING
\* changes the plan, and no step taken outside PLANNING and GENERATE_TESTS
\* changes the test harness.  In CODING, REFACTORING, AUDIT and DONE the
\* plan is the Architect's latest text, which the Validator approved, and
\* the harness is the QA engineer's text.
C34_EarlierArtifactsAreKept ==
  /\ [][ /\ ConstructorFields(context') = ConstructorFields(context)
         /\ context.current_state # "PLANNING" =>
              context'.plan = context.plan
         /\ context.current_state \notin {"PLANNING", "GENERATE_TESTS"} =>
              context'.test_code = context.test_code ]_vars
  /\ [](context.current_state \in {"CODING", "REFACTORING", "AUDIT", "DONE"} =>
          /\ context.plan = obs.last["ARCHITECT"]
          /\ Last(obs.validator) \in Approving
          /\ context.test_code = obs.last["QA_ENGINEER"])

\* A run is done after a rejected plan, failed coding attempts and refactor
\* rewrites, with the second plan and the harness still in the context.
C34_Witness ==
  /\ pc = "returned"
  /\ context.current_state = "DONE"
  /\ obs.calls["ARCHITECT"] = 2
  /\ obs.calls["DEBUGGER"] = 2
  /\ obs.calls["REFACTOR_AGENT"] = 2
  /\ context.plan = obs.last["ARCHITECT"]
  /\ context.test_code \in TestHarnesses
  /\ context.task = Task
  /\ context.similar_experiences = <<PriorRecord>>

-----------------------------------------------------------------------------
(* Two executions of the orchestrator over one experience log              *)

Executions == {"first", "second"}

\* What an execution passes to save_experience when its workflow has ended.
OutcomeOf(e) ==
  { [task |-> IF e = "first" THEN Task ELSE <<"f", "i", "x">>,
     success |-> ok, solution |-> code] : ok \in BOOLEAN, code \in Codes }

PersistedInAppendMode(file, mems) == Append(file, Last(mems))

\* open(self.memory_file, 'w'); json.dump(self.memories, f): the file after
\* the call holds the list of this MemoryManager and nothing else.
Persisted(file, mems) == mems

NotConstructed == [stage |-> "none", memories |-> <<>>]

SharedLogInit ==
  /\ memory_file \in LoadedLogs
  /\ managers = [of |-> [e \in Executions |-> NotConstructed],
                 events |-> <<>>]
  /\ memories = <<>>
  /\ context = NoContext
  /\ pc = "executions"
  /\ i = 0
  /\ plan = <<>>
  /\ lint_results = <<>>
  /\ workspace = [f \in {"repro_test.py", "solution.py"} |-> NoFile]
  /\ metrics = <<>>
  /\ exc = "none"
  /\ result = NoResult
  /\ obs = [calls |-> [p \in Personas |-> 0],
            last |-> [p \in Personas |-> NoText],
            validator |-> <<>>, coding_runs |-> <<>>, refactor_runs |-> <<>>,
            coding_prompts |-> <<>>, tested |-> NoFile, untested_writes |-> 0,
            lint_runs |-> <<>>, states |-> <<>>, loaded |-> <<>>]
  /\ MainIdle
  /\ RouterIdle
  /\ QueryIdle
  /\ ScriptIdle

\* TeamManager.__init__ of execution e: MemoryManager() reads the file.
ExecutionLoads(e) ==
  /\ managers.of[e].stage = "none"
  /\ managers' =
       [managers EXCEPT
          !.of[e] = [stage |-> "loaded", memories |-> memory_file],
          !.events = Append(@, [op |-> "load", by |-> e, file |-> memory_file])]
  /\ UNCHANGED <<workflowVars, pc, mainVars, routerVars, queryVars, scriptVars>>

\* The end of execute_workflow of execution e: save_experience.
ExecutionRecords(e) ==
  /\ managers.of[e].stage = "loaded"
  /\ \E outcome \in OutcomeOf(e) :
       LET mems == SaveExperience(managers.of[e].memories, outcome.task,
                                  outcome.success, outcome.solution)
       IN
         /\ memory_file' = Persisted(memory_file, mems)
         /\ managers' =
              [managers EXCEPT
                 !.of[e] = [stage |-> "saved", memories |-> mems],
                 !.events = Append(@, [op |-> "save", by |-> e,
                                       file |-> memory_file'])]
  /\ UNCHANGED <<context, i, plan, lint_results, workspace, memories, metrics,
                 exc, result, obs>>
  /\ UNCHANGED <<pc, mainVars, routerVars, queryVars, scriptVars>>

SharedLogNext ==
  \/ \E e \in Executions : ExecutionLoads(e)
  \/ \E e \in Executions : ExecutionRecords(e)

SpecSharedLog == SharedLogInit /\ [][SharedLogNext]_vars

\* when execution e did op, as a place in the order of events; 0 if it has not
When(op, e) ==
  IF \E k \in 1..Len(managers.events) :
       managers.events[k].op = op /\ managers.events[k].by = e
  THEN CHOOSE k \in 1..Len(managers.events) :
         managers.events[k].op = op /\ managers.events[k].by = e
  ELSE 0

\* the record execution e passed to save_experience
RecordOf(e) == Last(managers.of[e].memories)

BothRecorded == \A e \in Executions : managers.of[e].stage = "saved"

\* the log as it was before either execution touched it
LogAtStart == managers.events[1].file

\* C35: when both executions have recorded their outcome and both had loaded
\* the log before either recorded, the log holds what was loaded and the
\* record of the later execution only: the record of the earlier one is
\* gone.  When the later execution loaded after the earlier one had
\* recorded, the log holds both records.
C35_LostUpdate ==
  \A early, late \in Executions :
    (BothRecorded /\ When("save", early) < When("save", late)) =>
      IF When("load", late) < When("save", early)
      THEN /\ RecordOf(early) \notin Range(memory_file)
           /\ memory_file = Append(LogAtStart, RecordOf(late))
      ELSE memory_file = LogAtStart \o <<RecordOf(early), RecordOf(late)>>

\* Both executions loaded a log of one record, then the first recorded, then
\* the second: the log holds two records and not the first execution's.
C35_Witness ==
  /\ BothRecorded
  /\ When("load", "first") = 1
  /\ When("load", "second") = 2
  /\ When("save", "first") = 3
  /\ LogAtStart = <<PriorRecord>>
  /\ Len(memory_file) = 2
  /\ RecordOf("first") \notin Range(memory_file)
  /\ RecordOf("first") \in Range(managers.events[3].file)

-----------------------------------------------------------------------------
(* Claims about what a finished run leaves behind                          *)

\* the latest run of repro_test.py, in CODING or in REFACTORING
LatestTestRun ==
  IF obs.refactor_runs # <<>> THEN Last(obs.refactor_runs)
  ELSE Last(obs.coding_runs)

\* C36: in state DONE the latest run of the test harness exited with code 0,
\* solution.py has not been written since that run started, and the file
\* still holds what that run saw.
C36_DoneMeansLastRunPassed ==
  context.current_state = "DONE" =>
    /\ Len(obs.coding_runs) >= 1
    /\ Passed(LatestTestRun)
    /\ obs.untested_writes = 0
    /\ obs.tested = workspace["solution.py"]

\* A run is done whose latest test run was the re-run after the second
\* refactor rewrite.
C36_Witness ==
  /\ context.current_state = "DONE"
  /\ pc = "returned"
  /\ Len(obs.refactor_runs) = 2
  /\ obs.calls["REFACTOR_AGENT"] = 2
  /\ obs.tested = Unfenced(obs.last["REFACTOR_AGENT"])

\* execute_workflow as a sequential program: it takes its next step as long
\* as it has one, every call and every subprocess run coming back with an
\* answer or an exception.
SpecFair == Init /\ [][Next]_vars /\ WF_vars(Next)

WithinBudget ==
  /\ obs.calls["ARCHITECT"] <= MAX_RETRIES
  /\ obs.calls["VALIDATOR"] <= MAX_RETRIES
  /\ obs.calls["QA_ENGINEER"] <= 1
  /\ CoderClassCalls <= MAX_RETRIES
  /\ obs.calls["REFACTOR_AGENT"] <= MAX_RETRIES
  /\ obs.calls["AUDITOR"] <= 1
  /\ Len(obs.coding_runs) + Len(obs.refactor_runs) <= 2 * MAX_RETRIES
  /\ Len(obs.lint_runs) <= MAX_RETRIES

\* execute_workflow has returned from state DONE or FAILED
ReturnedFromTerminalState ==
  /\ pc = "returned"
  /\ context.current_state \in {"DONE", "FAILED"}
  /\ result = (context.current_state = "DONE")

\* C37: a run never makes more than R Architect, R Validator, 1 QA,
\* R Coder-or-Debugger, R Refactor and 1 Auditor calls, 2R runs of the test
\* harness and R lint runs; and unless a call or a run ends in an exception,
\* execute_workflow eventually returns, from state DONE or FAILED.
C37_TerminatesWithinBudget ==
  /\ []WithinBudget
  /\ <>(pc = "raised" \/ ReturnedFromTerminalState)

\* A run has returned that used up every budget.
C37_Witness ==
  /\ ReturnedFromTerminalState
  /\ obs.calls["ARCHITECT"] = MAX_RETRIES
  /\ obs.calls["VALIDATOR"] = MAX_RETRIES
  /\ obs.calls["QA_ENGINEER"] = 1
  /\ CoderClassCalls = MAX_RETRIES
  /\ obs.calls["REFACTOR_AGENT"] = MAX_RETRIES
  /\ obs.calls["AUDITOR"] = 1
  /\ Len(obs.coding_runs) + Len(obs.refactor_runs) = 2 * MAX_RETRIES
  /\ Len(obs.lint_runs) = MAX_RETRIES

\* C38: before the first coding attempt is answered there is no solution.py
\* and no solution text.  From then on the solution text in the context is
\* the text of the latest Coder, Debugger or Refactor generation as it was
\* received, solution.py holds that text without its code fence, and the
\* experience recorded at the end carries that text.
C38_FileFollowsContext ==
  /\ obs.last["CODER"] = NoText =>
       /\ context.solution_code = <<>>
       /\ workspace["solution.py"] = NoFile
  /\ obs.last["CODER"] # NoText =>
       /\ context.solution_code = LastProduced
       /\ workspace["solution.py"] = Unfenced(LastProduced)
       /\ pc = "returned" => Last(memories).solution = LastProduced

\* A failed run has returned: the Debugger's last text, with its fence, is
\* in the context and in the experience record, and without it in the file.
C38_Witness ==
  /\ pc = "returned"
  /\ context.current_state = "FAILED"
  /\ obs.calls["DEBUGGER"] = 2
  /\ context.solution_code = CodePlainFenced
  /\ workspace["solution.py"] = ProgramB
  /\ Last(memories).solution = CodePlainFenced

\* the latest lint run came after the latest rewrite and reported nothing
LintedCleanSinceLastRewrite ==
  /\ Len(obs.lint_runs) = obs.calls["REFACTOR_AGENT"] + 1
  /\ ReportsNothing(Last(obs.lint_runs))

\* MAX_RETRIES rewrites were made, each passed its re-run, and there were
\* only MAX_RETRIES lint runs, each before a rewrite
RewritesUsedUpUnlinted ==
  /\ obs.calls["REFACTOR_AGENT"] = MAX_RETRIES
  /\ Len(obs.refactor_runs) = MAX_RETRIES
  /\ \A k \in 1..MAX_RETRIES : Passed(obs.refactor_runs[k])
  /\ Len(obs.lint_runs) = MAX_RETRIES

\* C39: there are never more than MAX_RETRIES lint runs; and once the run
\* has gone from REFACTORING to AUDIT, either the latest lint run checked the
\* solution as it now stands and reported nothing, or MAX_RETRIES rewrites
\* each passed the harness and the last of them was never lint-checked.
C39_AuditAfterCleanLintOrExhaustion ==
  /\ Len(obs.lint_runs) <= MAX_RETRIES
  /\ Follows("REFACTORING", "AUDIT") =>
       (LintedCleanSinceLastRewrite \/ RewritesUsedUpUnlinted)

\* AUDIT was reached by exhaustion, the last lint run having found no flake8.
C39_Witness ==
  /\ Follows("REFACTORING", "AUDIT")
  /\ RewritesUsedUpUnlinted
  /\ Last(obs.lint_runs).missing
  /\ obs.untested_writes = 0

-----------------------------------------------------------------------------
(* Claims about what a reflexion loop that gives up leaves behind          *)

IsDebuggerGeneration(e) == e.op = "generate" /\ e.name = "new_code"

DebuggerGenerations == SelectSeq(script.events, IsDebuggerGeneration)

\* the program has returned after MAX_RETRIES runs none of which passed
GaveUp ==
  /\ script.program \in ReflexionPrograms
  /\ pc = "returned"
  /\ FirstPass = 0
  /\ Len(ScriptRuns) = MaxRetriesOf(script.program)

\* the last two events are a Senior Debugger generation and the write of
\* solution.py: no run_tests call came after them
LastRewriteNeverRun ==
  /\ Len(script.events) >= 2
  /\ IsDebuggerGeneration(script.events[Len(script.events) - 1])
  /\ Last(script.events).op = "write"
  /\ Last(script.events).name = "solution.py"
  /\ Last(script.events).text = script.files["solution.py"]

\* C40 as stated: when all MAX_RETRIES runs have failed, exactly MAX_RETRIES
\* debugger generations were made, solution.py is the output of the last
\* of them, and that output was never run.
C40_SolutionIsLastDebuggerOutput ==
  GaveUp =>
    /\ Len(DebuggerGenerations) = MaxRetriesOf(script.program)
    /\ script.files["solution.py"] = Last(DebuggerGenerations).text
    /\ LastRewriteNeverRun

\* C40, amended: when all MAX_RETRIES runs have failed, exactly MAX_RETRIES
\* debugger generations were made, solution.py is the output of the last
\* of them without its code fence and surrounding whitespace, and what was
\* written was never run.
C40_SolutionIsLastDebuggerOutputCleaned ==
  GaveUp =>
    /\ Len(DebuggerGenerations) = MaxRetriesOf(script.program)
    /\ script.files["solution.py"] = Bare(Last(DebuggerGenerations).text)
    /\ LastRewriteNeverRun

\* execute_flow has given up; the first draft was ProgramA and the last
\* rewrite, ProgramB, is what solution.py holds.
C40_Witness ==
  /\ GaveUp
  /\ script.program = "flow_engineer"
  /\ Bare(SolutionGenerations[1].text) = ProgramA
  /\ Last(DebuggerGenerations).text = CodePlainFenced
  /\ script.files["solution.py"] = ProgramB

====
